---------------------------- MODULE Spec2Model ----------------------------
(***************************************************************************)
(* SRAMPlatform device firmware (Device_Nucleo): the chain protocol engine *)
(* of main.c and sramplatform.c, for a chain of NumNodes devices below one *)
(* controller.  A link carries whole packets (PACKET_SIZE bytes); a packet *)
(* is a sequence of bytes on the wire and in the receive buffers, and the  *)
(* packet_t record inside the main loop.                                   *)
(***************************************************************************)
EXTENDS Integers, Sequences, FiniteSets, TLC

(***************************************************************************)
(* Bounds of the model.                                                    *)
(***************************************************************************)
NumNodes == 3
MaxSend == 1
MaxCmds == 4
MaxRun == 2048

Nodes == 1..NumNodes

(***************************************************************************)
(* sramplatform.h: sizes, command bytes and option selectors.              *)
(***************************************************************************)
UID_SIZE == 25
DATA_SIZE == 31
PACKET_SIZE == 64

ACK == 1
PING == 2
READ == 3
WRITE == 4
SENSORS == 5
LOAD == 6
EXEC == 7
RETR == 8
ERR == 255

OWN == 0
ALL == 1
TEMP == 2
VDD == 3

(* sramconf.h *)
SRC_BUF_OFFSET == 56
WRITE_BUF_OFFSET == 58
WRITE_BUF_MAX == DATA_SIZE

(* zforth.h: zf_result *)
ZF_OK == 0
ZF_ABORT_DIVISION_BY_ZERO == 10

(***************************************************************************)
(* Bytes and bit operations.                                               *)
(***************************************************************************)
Byte == 0..255

RECURSIVE XorBits(_, _, _)
XorBits(a, b, n) ==
    IF n = 0 THEN 0
    ELSE ((a + b) % 2) + 2 * XorBits(a \div 2, b \div 2, n - 1)

Xor4 == [a \in 0..15 |-> [b \in 0..15 |-> XorBits(a, b, 4)]]

Xor8T ==
    [a \in Byte |-> [b \in Byte |->
        16 * Xor4[a \div 16][b \div 16] + Xor4[a % 16][b % 16]]]

Xor8(a, b) == Xor8T[a][b]

Xor16(a, b) == 256 * Xor8(a \div 256, b \div 256) + Xor8(a % 256, b % 256)

Zeros(n) == [k \in 1..n |-> 0]

(* The little-endian bytes of an n-byte unsigned integer. *)
LE(v, n) == [k \in 1..n |-> (v \div (256 ^ (k - 1))) % 256]

(* The four bytes of an int32_t cell (two's complement, little-endian). *)
CellBytes(c) ==
    IF c >= 0 THEN LE(c, 4)
    ELSE LET u == (c + 2147483647) + 1
         IN  [k \in 1..4 |-> IF k = 4 THEN (u \div 16777216) + 128
                                      ELSE (u \div (256 ^ (k - 1))) % 256]

(***************************************************************************)
(* crc16: the table-driven CRC-16 byte step, folded over the buffer.       *)
(***************************************************************************)
RECURSIVE CrcShift(_, _)
CrcShift(r, n) ==
    IF n = 0 THEN r
    ELSE CrcShift(IF r % 2 = 1 THEN Xor16(r \div 2, 40961) ELSE r \div 2, n - 1)

crc16_table == [b \in Byte |-> CrcShift(b, 8)]

(* (crc >> 8) ^ crc16_table[(crc ^ data) & 0xff] *)
crc16_byte(crc, data) ==
    LET t == crc16_table[Xor8(crc % 256, data)]
    IN  256 * (t \div 256) + Xor8(t % 256, crc \div 256)

(* The crc after each byte is a 16-bit value, computed before the next     *)
(* byte is folded in.                                                      *)
RECURSIVE crc16at(_, _, _)
crc16at(crc, buf, k) ==
    IF k > Len(buf) THEN crc
    ELSE LET c == crc16_byte(crc, buf[k])
         IN  IF c \in Nat THEN crc16at(c, buf, k + 1) ELSE c

crc16(crc, buf) == crc16at(crc, buf, 1)

(***************************************************************************)
(* packet_t and the packet codec.                                          *)
(***************************************************************************)
(* The memory image of the (packed) packet_t, which is also the order and  *)
(* width in which send_packet transmits the fields.                        *)
PacketImage(p) ==
    <<p.command, p.pic>> \o LE(p.options, 4) \o p.uid \o p.data
        \o LE(p.checksum, 2)

parse_packet(b) ==
    [command  |-> b[1],
     pic      |-> b[2],
     options  |-> b[6] * 16777216 + b[5] * 65536 + b[4] * 256 + b[3],
     uid      |-> SubSeq(b, 7, 31),
     data     |-> SubSeq(b, 32, 31 + DATA_SIZE),
     checksum |-> b[PACKET_SIZE] * 256 + b[PACKET_SIZE - 1]]

ZeroChecksum(b) ==
    [k \in 1..PACKET_SIZE |-> IF k >= PACKET_SIZE - 1 THEN 0 ELSE b[k]]


STR_MATCH(a, b) == a = b

(* strcpy: the bytes of src up to and including its first NUL. *)
strcpy(dst, src) ==
    LET n == CHOOSE k \in 1..Len(src) :
                 src[k] = 0 /\ \A j \in 1..(k - 1) : src[j] # 0
    IN  [k \in 1..Len(dst) |-> IF k <= n THEN src[k] ELSE dst[k]]

(***************************************************************************)
(* Identity, RAM size and calibration words of device i.                   *)
(***************************************************************************)
ChipIdByte(i, k) == (17 * i + k) % 256

ChipIdWord(i, k) ==
    ChipIdByte(i, k) * 16777216 + ChipIdByte(i, k + 1) * 65536
        + ChipIdByte(i, k + 2) * 256 + ChipIdByte(i, k + 3)

HexDigit(d) == IF d < 10 THEN 48 + d ELSE 55 + d

(* "%08X" *)
Hex8(w) == [k \in 1..8 |-> HexDigit((w \div (16 ^ (8 - k))) % 16)]

collect_bid(i) ==
    LET uid0 == ChipIdWord(i, 0)
        uid1 == ChipIdWord(i, 4)
        uid2 == ChipIdWord(i, 19)
    IN  SubSeq(Hex8(uid0) \o Hex8(uid1) \o Hex8(uid2), 1, UID_SIZE - 1) \o <<0>>

UID == [i \in Nodes |-> collect_bid(i)]

sram_size(i) == 16384 * i

temp110_cal(i) == 900 + i
temp30_cal(i) == 600 + i
vdd_cal(i) == 1600 + i

(***************************************************************************)
(* Memory surface: bytes at offsets from SRAM_START.  Only the bytes that  *)
(* have been written are stored; every other byte reads as 0.              *)
(***************************************************************************)
MemByte(m, a) == IF a \in DOMAIN m THEN m[a] ELSE 0

(* memcpy(dest, SRAM_START + a, n) *)
MemRead(m, a, n) == [k \in 1..n |-> MemByte(m, a + k - 1)]

(* memcpy(SRAM_START + a, src, Len(src)) *)
MemWrite(m, a, src) ==
    [x \in DOMAIN m \cup (a..(a + Len(src) - 1)) |->
        IF x >= a /\ x < a + Len(src) THEN src[x - a + 1] ELSE m[x]]

(* The block index taken as a byte offset. *)
read_sram_NoScale(m, offset) == MemRead(m, offset % 65536, DATA_SIZE)

read_sram(m, offset) == MemRead(m, (offset % 65536) * DATA_SIZE, DATA_SIZE)

write_sram(m, offset, src) == MemWrite(m, (offset % 65536) * DATA_SIZE, src)

SRC_BUF == SRC_BUF_OFFSET * DATA_SIZE
WRITE_BUF == WRITE_BUF_OFFSET * DATA_SIZE

(***************************************************************************)
(* The working state of one main-loop iteration of device st.i: the        *)
(* globals the iteration reads and writes, and ev, the link operations it  *)
(* has issued so far, in program order.                                    *)
(***************************************************************************)
TxEvent(link, p) == [op |-> "tx", link |-> link, pkt |-> PacketImage(p)]
ResetEvent(link) == [op |-> "reset", link |-> link, pkt |-> <<>>]

send_packet(st, link) == [st EXCEPT !.ev = Append(@, TxEvent(link, st.packet))]

RESET_UPWARDS(st) == [st EXCEPT !.ev = Append(@, ResetEvent("up"))]

RESET_DOWNWARDS(st) == [st EXCEPT !.ev = Append(@, ResetEvent("down"))]

(* packet.checksum = make_crc(&packet, buffer): the image of the packet is  *)
(* copied into buffer; wr notes after how many link operations of the      *)
(* iteration buffer is written.                                            *)
make_crc(st) ==
    LET img == ZeroChecksum(PacketImage(st.packet))
    IN  [st EXCEPT !.buffer = img, !.packet.checksum = crc16(0, img),
                   !.wr = Append(@, Len(st.ev))]

(***************************************************************************)
(* The VM as the engine sees it.  PRIM_EMIT stores one cell in the result  *)
(* buffer; eval_cmd returns a result code, may emit cells and leaves the   *)
(* data stack pointer.  The engine-level model does not interpret the      *)
(* source: an evaluation is described by its outcome o, and a non-empty    *)
(* source may have any of the outcomes of EvalOutcomes.                    *)
(***************************************************************************)
RECURSIVE EmitCells(_, _, _)
EmitCells(st, cells, k) ==
    IF k > Len(cells) THEN st
    ELSE LET pos == st.write_pos + 1
         IN  EmitCells([st EXCEPT
                 !.sram = MemWrite(@, WRITE_BUF + 4 * st.write_pos,
                                   CellBytes(cells[k])),
                 !.write_pos = IF pos = WRITE_BUF_MAX THEN 0 ELSE pos],
               cells, k + 1)

(* An empty source evaluates to ZF_OK and touches nothing; an abort leaves *)
(* dsp = 0.                                                                *)
EvalOutcomes(src0) ==
    IF src0 = 0
    THEN {[r |-> ZF_OK, emit |-> <<>>, dsp |-> 0]}
    ELSE {[r |-> ZF_OK, emit |-> <<42>>, dsp |-> 1],
          [r |-> ZF_ABORT_DIVISION_BY_ZERO, emit |-> <<>>, dsp |-> 0]}

eval_cmd(st, o) ==
    [EmitCells(st, o.emit, 1) EXCEPT !.zf = [dsp |-> o.dsp], !.ret = o.r]

(***************************************************************************)
(* main(): the cases of the command switch.                                *)
(***************************************************************************)
ForwardDown(st) == RESET_UPWARDS(RESET_DOWNWARDS(send_packet(make_crc(st), "down")))

ReplyUp(st) == RESET_UPWARDS(send_packet(make_crc(st), "up"))

CasePingOwn(st) ==
    IF STR_MATCH(UID[st.i], st.packet.uid)
    THEN RESET_UPWARDS(send_packet(make_crc(
             [st EXCEPT !.packet.options = sram_size(st.i),
                        !.packet.command = ACK]), "up"))
    ELSE RESET_UPWARDS(RESET_DOWNWARDS(send_packet(st, "down")))

(* The ACK keeps the uid of the request. *)
CasePingAll_KeepsUid(st) ==
    LET a == RESET_UPWARDS(send_packet(make_crc(
                 [st EXCEPT !.packet.options = sram_size(st.i),
                            !.packet.command = ACK]), "up"))
    IN  RESET_DOWNWARDS(send_packet(make_crc(
            [a EXCEPT !.packet.command = PING,
                      !.packet.options = ALL]), "down"))

CasePingAll(st) ==
    LET a == RESET_UPWARDS(send_packet(make_crc(
                 [st EXCEPT !.packet.uid = strcpy(@, UID[st.i]),
                            !.packet.options = sram_size(st.i),
                            !.packet.command = ACK]), "up"))
    IN  RESET_DOWNWARDS(send_packet(make_crc(
            [a EXCEPT !.packet.command = PING,
                      !.packet.options = ALL]), "down"))

CasePing(st) ==
    CASE st.packet.options = OWN -> CasePingOwn(st)
      [] st.packet.options = ALL -> CasePingAll(st)
      [] OTHER -> st

CaseRead(st) ==
    IF ~STR_MATCH(UID[st.i], st.packet.uid)
    THEN ForwardDown(st)
    ELSE ReplyUp([st EXCEPT !.packet.command = ACK,
                            !.packet.data = read_sram(st.sram, st.packet.options)])

(* The write is done whichever device the packet is addressed to. *)
CaseWrite_NoUidCheck(st) ==
    ReplyUp([st EXCEPT
        !.sram = write_sram(@, st.packet.options, st.packet.data),
        !.packet.command = ACK])

CaseWrite(st) ==
    IF ~STR_MATCH(UID[st.i], st.packet.uid)
    THEN ForwardDown(st)
    ELSE ReplyUp([st EXCEPT
             !.sram = write_sram(@, st.packet.options, st.packet.data),
             !.packet.command = ACK])

(* The bytes a SENSORS request stores at the start of packet.data. *)
SensorBytes(st) ==
    CASE st.packet.options = ALL ->
             LE(temp110_cal(st.i), 2) \o LE(temp30_cal(st.i), 2)
                 \o LE(st.temp, 2) \o LE(vdd_cal(st.i), 2) \o LE(st.vdd, 2)
      [] st.packet.options = TEMP ->
             LE(temp110_cal(st.i), 2) \o LE(temp30_cal(st.i), 2)
                 \o LE(st.temp, 2)
      [] st.packet.options = VDD ->
             LE(vdd_cal(st.i), 2) \o LE(st.vdd, 2)
      [] OTHER -> <<>>

CaseSensors(st) ==
    IF ~STR_MATCH(UID[st.i], st.packet.uid)
    THEN ForwardDown(st)
    ELSE LET sb == SensorBytes(st)
         IN  ReplyUp([st EXCEPT
                 !.packet.data = [k \in 1..DATA_SIZE |->
                                     IF k <= Len(sb) THEN sb[k] ELSE @[k]],
                 !.packet.command = ACK])

CaseLoad(st) ==
    IF STR_MATCH(UID[st.i], st.packet.uid)
    THEN ReplyUp([st EXCEPT
             !.sram = MemWrite(@, SRC_BUF + DATA_SIZE * st.packet.options,
                               st.packet.data),
             !.packet.command = ACK])
    ELSE ForwardDown(st)

(* Lines 328-330: EXEC with options 1 restarts the result buffer. *)
(* write_pos is left as it is whatever the options. *)
ExecBegin_NoReset(st) == st

ExecBegin(st) ==
    IF st.packet.options = 1 THEN [st EXCEPT !.write_pos = 0] ELSE st

(* Lines 331-335, after eval_cmd has returned ret. *)
ExecEnd(st, ret) ==
    ReplyUp([st EXCEPT !.packet.options = ret, !.packet.command = ACK])

CaseExec(st, o) ==
    IF STR_MATCH(UID[st.i], st.packet.uid)
    THEN LET e == eval_cmd(ExecBegin(st), o)
         IN  ExecEnd(e, e.ret)
    ELSE ForwardDown(st)

(* WRITE_BUF is an int32_t pointer: the block index counts 4-byte cells. *)
CaseRetr(st) ==
    IF STR_MATCH(UID[st.i], st.packet.uid)
    THEN ReplyUp([st EXCEPT
             !.packet.data = MemRead(st.sram,
                                 WRITE_BUF + 4 * (DATA_SIZE * st.packet.options),
                                 DATA_SIZE),
             !.packet.command = ACK])
    ELSE ForwardDown(st)

(* The packet goes on down the chain. *)
CaseDefault_Forwards(st) == ForwardDown(st)

(* Lines 361-367: case ERR and default. *)
CaseDefault(st) == ReplyUp(st)

Dispatch(st, o) ==
    CASE st.packet.command = PING    -> CasePing(st)
      [] st.packet.command = READ    -> CaseRead(st)
      [] st.packet.command = WRITE   -> CaseWrite(st)
      [] st.packet.command = SENSORS -> CaseSensors(st)
      [] st.packet.command = LOAD    -> CaseLoad(st)
      [] st.packet.command = EXEC    -> CaseExec(st, o)
      [] st.packet.command = RETR    -> CaseRetr(st)
      [] OTHER                       -> CaseDefault(st)

(* The hop is not counted. *)
Receive_NoHop(st) ==
    LET p == parse_packet(st.buffer)
        b == ZeroChecksum(st.buffer)
    IN  [st EXCEPT !.packet = p,
                   !.buffer = b,
                   !.ev = <<[op |-> "rx", link |-> "up", pkt |-> st.buffer]>>,
                   !.wr = <<1>>,
                   !.checksum = crc16(0, b)]

(* Lines 176-182: parse, count the hop, recompute the checksum. *)
Receive(st) ==
    LET p == parse_packet(st.buffer)
        b == ZeroChecksum(st.buffer)
    IN  [st EXCEPT !.packet = [p EXCEPT !.pic = (p.pic + 1) % 256],
                   !.buffer = b,
                   !.ev = <<[op |-> "rx", link |-> "up", pkt |-> st.buffer]>>,
                   !.wr = <<1>>,
                   !.checksum = crc16(0, b)]

(* The command of the offending packet is left in place. *)
OnMismatch_KeepsCommand(st) ==
    IF st.checksum # st.packet.checksum
    THEN RESET_UPWARDS(send_packet(make_crc(
             [st EXCEPT !.packet.options = 1]), "up"))
    ELSE st

(* Lines 184-190: the checksum did not match. *)
OnMismatch(st) ==
    IF st.checksum # st.packet.checksum
    THEN RESET_UPWARDS(send_packet(make_crc(
             [st EXCEPT !.packet.command = ERR, !.packet.options = 1]), "up"))
    ELSE st

(* One iteration of while (1) once bytes_rx has reached PACKET_SIZE. *)
Iteration(st, o) == Dispatch(OnMismatch(Receive(st)), o)

(***************************************************************************)
(* zforth.h, zforth.c: configuration, result codes, input states, memory   *)
(* size selectors, primitives and word flags of the VM.                    *)
(***************************************************************************)
ZF_DICT_SIZE == 4096
ZF_DSTACK_SIZE == 32
ZF_RSTACK_SIZE == 32

ZF_ABORT_INTERNAL_ERROR == 1
ZF_ABORT_NOT_A_WORD == 7
ZF_ABORT_INVALID_SIZE == 9

ZF_INPUT_INTERPRET == 0
ZF_INPUT_PASS_CHAR == 1
ZF_INPUT_PASS_WORD == 2

ZF_USERVAR_HERE == 0
ZF_USERVAR_LATEST == 1
ZF_USERVAR_TRACE == 2
ZF_USERVAR_COMPILING == 3
ZF_USERVAR_POSTPONE == 4
ZF_USERVAR_COUNT == 5

ZF_MEM_SIZE_VAR == 0
ZF_MEM_SIZE_CELL == 1
ZF_MEM_SIZE_U8 == 2
ZF_MEM_SIZE_U16 == 3
ZF_MEM_SIZE_U32 == 4
ZF_MEM_SIZE_S8 == 5
ZF_MEM_SIZE_S16 == 6
ZF_MEM_SIZE_S32 == 7

PRIM_EXIT == 0
PRIM_LIT == 1
PRIM_LTZ == 2
PRIM_COL == 3
PRIM_SEMICOL == 4
PRIM_ADD == 5
PRIM_SUB == 6
PRIM_MUL == 7
PRIM_DIV == 8
PRIM_MOD == 9
PRIM_DROP == 10
PRIM_DUP == 11
PRIM_PICKR == 12
PRIM_IMMEDIATE == 13
PRIM_PEEK == 14
PRIM_POKE == 15
PRIM_SWAP == 16
PRIM_ROT == 17
PRIM_JMP == 18
PRIM_JMP0 == 19
PRIM_TICK == 20
PRIM_COMMENT == 21
PRIM_PUSHR == 22
PRIM_POPR == 23
PRIM_EQUAL == 24
PRIM_SYS == 25
PRIM_PICK == 26
PRIM_COMMA == 27
PRIM_KEY == 28
PRIM_LITS == 29
PRIM_LEN == 30
PRIM_AND == 31
PRIM_OR == 32
PRIM_XOR == 33
PRIM_SHL == 34
PRIM_SHR == 35
PRIM_EMIT == 36
PRIM_DEVREAD == 37
PRIM_DEVWRITE == 38
PRIM_DEVTEMP == 39
PRIM_DEVVDD == 40
PRIM_COUNT == 41

ZF_FLAG_IMMEDIATE == 64
ZF_FLAG_PRIM == 32
ZF_FLAG_LEN(v) == v % 32

(***************************************************************************)
(* zf_cell is int32_t: a cell is an integer of MinCell..MaxCell, and the   *)
(* arithmetic of the primitives wraps to 32 bits as the target's           *)
(* instructions do.  zf_addr is unsigned int: an address is held as the    *)
(* cell with the same 32 bits, so a negative cell stands for an address of *)
(* 2^31 or more.                                                           *)
(***************************************************************************)
MaxCell == 2147483647
MinCell == (-MaxCell) - 1

(* The cell whose two's complement image is the four bytes b (little-      *)
(* endian).                                                                *)
CellOf(b) ==
    IF b[4] < 128
    THEN b[1] + 256 * b[2] + 65536 * b[3] + 16777216 * b[4]
    ELSE ((b[1] + 256 * b[2] + 65536 * b[3] + 16777216 * (b[4] - 128))
             - MaxCell) - 1

AddCell(a, b) ==
    IF a >= 0 /\ b >= 0 /\ a > MaxCell - b
    THEN ((a - MaxCell) - 1) + ((b - MaxCell) - 1)
    ELSE IF a < 0 /\ b < 0 /\ a < MinCell - b
         THEN ((a + MaxCell) + 1) + ((b + MaxCell) + 1)
         ELSE a + b

NegCell(a) == IF a = MinCell THEN MinCell ELSE -a

SubCell(a, b) == AddCell(a, NegCell(b))

(* a * b in 32 bits: shift and add over the 32 bits of b. *)
RECURSIVE MulBits(_, _, _)
MulBits(a, b, n) ==
    IF n = 0 \/ b = 0 THEN 0
    ELSE AddCell(IF b % 2 = 1 THEN a ELSE 0,
                 MulBits(AddCell(a, a), b \div 2, n - 1))

MulCell(a, b) == MulBits(a, b, 32)

(* C division truncates toward zero; the remainder has the sign of the     *)
(* dividend.  MinCell / -1 does not fit a cell; the quotient wraps.        *)
TruncDivPos(a, b) ==
    LET q == a \div b IN IF a < 0 /\ q * b # a THEN q + 1 ELSE q

DivCell(a, b) ==
    IF b > 0 THEN TruncDivPos(a, b)
    ELSE IF b = MinCell THEN (IF a = MinCell THEN 1 ELSE 0)
    ELSE NegCell(TruncDivPos(a, -b))

ModCell(a, b) == SubCell(a, MulCell(DivCell(a, b), b))

(* Bitwise operations, byte by byte on the images of the cells. *)
And8(a, b) == ((a + b) - Xor8(a, b)) \div 2
Or8(a, b) == Xor8(a, b) + And8(a, b)

AndCell(a, b) ==
    CellOf([k \in 1..4 |-> And8(CellBytes(a)[k], CellBytes(b)[k])])
OrCell(a, b) ==
    CellOf([k \in 1..4 |-> Or8(CellBytes(a)[k], CellBytes(b)[k])])
XorCell(a, b) ==
    CellOf([k \in 1..4 |-> Xor8(CellBytes(a)[k], CellBytes(b)[k])])

(* a << n and a >> n (arithmetic) for a shift count of 0..31. *)
RECURSIVE ShlCell(_, _)
ShlCell(a, n) == IF n = 0 THEN a ELSE ShlCell(AddCell(a, a), n - 1)

RECURSIVE ShrCell(_, _)
ShrCell(a, n) == IF n = 0 THEN a ELSE ShrCell(a \div 2, n - 1)

(* Integer conversions of C: the value v reduced to n bytes, unsigned or   *)
(* signed.                                                                 *)
Unsigned(v, n) == IF n = 1 THEN v % 256 ELSE v % 65536

(* No sign extension. *)
Signed_NoSign(v, n) == IF n = 1 THEN v % 256 ELSE v % 65536

Signed(v, n) ==
    IF n = 1 THEN IF v % 256 < 128 THEN v % 256 ELSE (v % 256) - 256
    ELSE IF v % 65536 < 32768 THEN v % 65536 ELSE (v % 65536) - 65536

(***************************************************************************)
(* The state of the VM is a record z: dict (the bytes of the dictionary    *)
(* written so far, address a at index a + 1; the rest of the array is 0),  *)
(* the two stacks with their pointers, ip, input_state, buf (the           *)
(* characters of the word handle_char is collecting), and the globals of   *)
(* main.c the primitives reach: sram, write_pos, sensors (temp, vdd).      *)
(* abort is the reason of a pending zf_abort (0: none).  The user          *)
(* variables are the first ZF_USERVAR_COUNT unsigned ints of dict.         *)
(*                                                                         *)
(* An access outside dict or outside a stack array is undefined: a read    *)
(* there yields z.u, a value the model chooses freely, a write there is    *)
(* not kept, and both set z.oob.                                           *)
(***************************************************************************)
NULL == <<>>

InDict(a) == a >= 0 /\ a < ZF_DICT_SIZE

DictByte(z, a) ==
    IF InDict(a)
    THEN IF a < Len(z.dict) THEN z.dict[a + 1] ELSE 0
    ELSE z.u

(* dict[a] = b *)
DictSet(z, a, b) ==
    IF InDict(a)
    THEN [z EXCEPT !.dict =
             IF a < Len(@) THEN [@ EXCEPT ![a + 1] = b]
             ELSE @ \o Zeros(a - Len(@)) \o <<b>>]
    ELSE [z EXCEPT !.oob = TRUE]

RECURSIVE dict_put_at(_, _, _, _)
dict_put_at(z, addr, bytes, k) ==
    IF k > Len(bytes) THEN z
    ELSE dict_put_at(DictSet(z, AddCell(addr, k - 1), bytes[k]), addr, bytes,
                     k + 1)

dict_put_bytes(z, addr, bytes) == dict_put_at(z, addr, bytes, 1)

dict_get_bytes(z, addr, len) ==
    [k \in 1..len |-> DictByte(z, AddCell(addr, k - 1))]

uservar(z, id) == CellOf(dict_get_bytes(z, 4 * id, 4))

SetUservar(z, id, v) == dict_put_bytes(z, 4 * id, CellBytes(v))

HERE(z) == uservar(z, ZF_USERVAR_HERE)
LATEST(z) == uservar(z, ZF_USERVAR_LATEST)
COMPILING(z) == uservar(z, ZF_USERVAR_COMPILING)
POSTPONE(z) == uservar(z, ZF_USERVAR_POSTPONE)

(* The bytes dict_put_cell_typed writes for the cell v in the given size,  *)
(* or ok = FALSE where it aborts with ZF_ABORT_INVALID_SIZE.               *)
PutImage(v, size) ==
    CASE size = ZF_MEM_SIZE_VAR ->
             [ok |-> TRUE,
              bytes |-> IF v >= 0 /\ v < 128 THEN <<v>>
                        ELSE IF v >= 0 /\ v < 16384
                             THEN <<(v \div 256) + 128, v % 256>>
                             ELSE <<255>> \o CellBytes(v)]
      [] size \in {ZF_MEM_SIZE_CELL, ZF_MEM_SIZE_U32, ZF_MEM_SIZE_S32} ->
             [ok |-> TRUE, bytes |-> CellBytes(v)]
      [] size \in {ZF_MEM_SIZE_U8, ZF_MEM_SIZE_S8} ->
             [ok |-> TRUE, bytes |-> <<v % 256>>]
      [] size \in {ZF_MEM_SIZE_U16, ZF_MEM_SIZE_S16} ->
             [ok |-> TRUE, bytes |-> LE(v % 65536, 2)]
      [] OTHER -> [ok |-> FALSE, bytes |-> <<>>]

(* The result has the new state in z and the returned length in l. *)
dict_put_cell_typed(z, addr, v, size) ==
    LET p == PutImage(v, size)
    IN  IF p.ok
        THEN [z |-> dict_put_bytes(z, addr, p.bytes), l |-> Len(p.bytes)]
        ELSE [z |-> [z EXCEPT !.abort = ZF_ABORT_INVALID_SIZE], l |-> 0]

(* The cell read in v and the returned length in l; ok = FALSE where it    *)
(* aborts with ZF_ABORT_INVALID_SIZE.                                      *)
dict_get_cell_typed(z, addr, size) ==
    LET t == dict_get_bytes(z, addr, 2)
    IN  CASE size = ZF_MEM_SIZE_VAR ->
                 IF t[1] >= 128
                 THEN IF t[1] = 255
                      THEN [ok |-> TRUE, l |-> 5,
                            v |-> CellOf(dict_get_bytes(z, AddCell(addr, 1), 4))]
                      ELSE [ok |-> TRUE, l |-> 2,
                            v |-> (t[1] % 64) * 256 + t[2]]
                 ELSE [ok |-> TRUE, l |-> 1, v |-> t[1]]
          [] size \in {ZF_MEM_SIZE_CELL, ZF_MEM_SIZE_U32, ZF_MEM_SIZE_S32} ->
                 [ok |-> TRUE, l |-> 4, v |-> CellOf(dict_get_bytes(z, addr, 4))]
          [] size = ZF_MEM_SIZE_U8 ->
                 [ok |-> TRUE, l |-> 1, v |-> t[1]]
          [] size = ZF_MEM_SIZE_U16 ->
                 [ok |-> TRUE, l |-> 2, v |-> t[1] + 256 * t[2]]
          [] size = ZF_MEM_SIZE_S8 ->
                 [ok |-> TRUE, l |-> 1, v |-> Signed(t[1], 1)]
          [] size = ZF_MEM_SIZE_S16 ->
                 [ok |-> TRUE, l |-> 2, v |-> Signed(t[1] + 256 * t[2], 2)]
          [] OTHER -> [ok |-> FALSE, l |-> 0, v |-> 0]

dict_put_cell(z, addr, v) == dict_put_cell_typed(z, addr, v, ZF_MEM_SIZE_VAR)

dict_get_cell(z, addr) == dict_get_cell_typed(z, addr, ZF_MEM_SIZE_VAR)

(* HERE += dict_put_cell_typed(HERE, v, size) *)
dict_add_cell_typed(z, v, size) ==
    LET h == HERE(z)
        r == dict_put_cell_typed(z, h, v, size)
    IN  IF r.z.abort # 0 THEN r.z
        ELSE SetUservar(r.z, ZF_USERVAR_HERE, AddCell(h, r.l))

dict_add_cell(z, v) == dict_add_cell_typed(z, v, ZF_MEM_SIZE_VAR)

dict_add_op(z, op) == dict_add_cell(z, op)

dict_add_lit(z, v) == dict_add_cell(dict_add_op(z, PRIM_LIT), v)

dict_add_str(z, s) ==
    SetUservar(dict_put_bytes(z, HERE(z), s), ZF_USERVAR_HERE,
               AddCell(HERE(z), Len(s)))

(* a | b for a name length a (0..31) and flag bits b. *)
create(z, name, flags) ==
    LET here_prev == HERE(z)
        z1 == dict_add_cell(z, Len(name) + flags)
        z2 == dict_add_cell(z1, LATEST(z1))
        z3 == dict_add_str(z2, name)
    IN  SetUservar(z3, ZF_USERVAR_LATEST, here_prev)

(***************************************************************************)
(* Stack operations.  CHECK compiles to nothing (ZF_ENABLE_BOUNDARY_CHECKS *)
(* is 0): the pointer moves whatever its value.  dstack and rstack hold    *)
(* the cells below the pointer that lie inside the array.                  *)
(***************************************************************************)
InStack(i) == i >= 0 /\ i < ZF_DSTACK_SIZE

zf_push(z, v) ==
    IF InStack(z.dsp)
    THEN [z EXCEPT !.dstack = Append(@, v), !.dsp = @ + 1]
    ELSE [z EXCEPT !.dsp = AddCell(@, 1), !.oob = TRUE]

(* zf_pop: the cell it returns, and the state it leaves. *)
Top(z) == IF InStack(z.dsp - 1) THEN z.dstack[z.dsp] ELSE z.u

Pop(z) ==
    IF InStack(z.dsp - 1)
    THEN [z EXCEPT !.dstack = SubSeq(@, 1, z.dsp - 1), !.dsp = @ - 1]
    ELSE [z EXCEPT !.dsp = SubCell(@, 1), !.oob = TRUE]

(* dstack[dsp - n - 1] *)
zf_pick(z, n) ==
    LET k == SubCell(SubCell(z.dsp, n), 1)
    IN  IF k >= 0 /\ k < Len(z.dstack) THEN z.dstack[k + 1] ELSE z.u

PickOob(sp, stack, n) ==
    LET k == SubCell(SubCell(sp, n), 1) IN ~(k >= 0 /\ k < Len(stack))

zf_pushr(z, v) ==
    IF InStack(z.rsp)
    THEN [z EXCEPT !.rstack = Append(@, v), !.rsp = @ + 1]
    ELSE [z EXCEPT !.rsp = AddCell(@, 1), !.oob = TRUE]

TopR(z) == IF InStack(z.rsp - 1) THEN z.rstack[z.rsp] ELSE z.u

PopR(z) ==
    IF InStack(z.rsp - 1)
    THEN [z EXCEPT !.rstack = SubSeq(@, 1, z.rsp - 1), !.rsp = @ - 1]
    ELSE [z EXCEPT !.rsp = SubCell(@, 1), !.oob = TRUE]

zf_pickr(z, n) ==
    LET k == SubCell(SubCell(z.rsp, n), 1)
    IN  IF k >= 0 /\ k < Len(z.rstack) THEN z.rstack[k + 1] ELSE z.u

(* The abort is not raised. *)
zf_abort_Ignored(z, reason) == z

zf_abort(z, reason) == [z EXCEPT !.abort = reason]

(***************************************************************************)
(* find_word: the walk along the links from LATEST.  s is the state of the *)
(* walk; the loop of at most n rounds is split in halves.  A chain that    *)
(* has not ended after MaxWalk words never ends.                           *)
(***************************************************************************)
MaxWalk == ZF_DICT_SIZE

FindStep(z, name, s) ==
    LET d == dict_get_cell(z, s.w)
        p1 == AddCell(s.w, d.l)
        link == dict_get_cell(z, p1)
        p == AddCell(p1, link.l)
        len == ZF_FLAG_LEN(d.v)
    IN  IF len = Len(name) /\ dict_get_bytes(z, p, len) = name
        THEN [s EXCEPT !.found = TRUE, !.word = s.w, !.code = AddCell(p, len)]
        ELSE [s EXCEPT !.w = link.v]

RECURSIVE FindLoop(_, _, _, _)
FindLoop(z, name, s, n) ==
    IF s.found \/ s.w = 0 THEN s
    ELSE IF n = 1 THEN FindStep(z, name, s)
    ELSE CHOOSE r \in {FindLoop(z, name, h, n - (n \div 2)) :
                          h \in {FindLoop(z, name, s, n \div 2)}} : TRUE

(* The walk starts at the word before the latest one. *)
find_word_SkipsLatest(z, name) ==
    FindLoop(z, name,
             [w |-> dict_get_cell(z, AddCell(LATEST(z),
                                    dict_get_cell(z, LATEST(z)).l)).v,
              found |-> FALSE, word |-> 0, code |-> 0],
             MaxWalk)

find_word(z, name) ==
    FindLoop(z, name, [w |-> LATEST(z), found |-> FALSE, word |-> 0, code |-> 0],
             MaxWalk)

(* The walk of find_word does not end. *)
FindHangs(z, name) ==
    LET s == find_word(z, name) IN ~s.found /\ s.w # 0

make_immediate(z) ==
    LET lenflags == dict_get_cell(z, LATEST(z))
    IN  dict_put_cell(z, LATEST(z), OrCell(lenflags.v, ZF_FLAG_IMMEDIATE)).z

(* peek: the value in v and the returned length in l. *)
peek(z, addr, len) ==
    IF addr >= 0 /\ addr < ZF_USERVAR_COUNT
    THEN [ok |-> TRUE, v |-> uservar(z, addr), l |-> 1]
    ELSE dict_get_cell_typed(z, addr, len)

(***************************************************************************)
(* do_prim: the primitive op applied to z, with input the word or          *)
(* character handed to it (NULL: none).                                    *)
(***************************************************************************)
(* ip += dict_get_cell(ip, &d1): the cell in v, the state after it in z. *)
Operand(z) ==
    LET c == dict_get_cell(z, z.ip)
    IN  [v |-> c.v, z |-> [z EXCEPT !.ip = AddCell(@, c.l)]]

(* The state after two and three pops. *)
Pop2(z) == Pop(Pop(z))
Pop3(z) == Pop(Pop(Pop(z)))

(* The cells the second and the third zf_pop return. *)
Top2(z) == Top(Pop(z))
Top3(z) == Top(Pop(Pop(z)))

PrimTick(z, input) ==
    IF COMPILING(z) # 0
    THEN LET o == Operand(z) IN zf_push(o.z, o.v)
    ELSE IF input # NULL
         THEN LET f == find_word(z, input)
              IN  IF f.found THEN zf_push(z, f.code)
                  ELSE IF f.w # 0 THEN [z EXCEPT !.hang = TRUE]
                  ELSE zf_abort(z, ZF_ABORT_INTERNAL_ERROR)
         ELSE [z EXCEPT !.input_state = ZF_INPUT_PASS_WORD]

PrimLen(z) ==
    LET r == peek(Pop2(z), Top2(z), Top(z))
    IN  IF r.ok THEN zf_push(Pop2(z), r.l)
        ELSE zf_abort(Pop2(z), ZF_ABORT_INVALID_SIZE)

PrimPeek(z) ==
    LET r == peek(Pop2(z), Top2(z), Top(z))
    IN  IF r.ok THEN zf_push(Pop2(z), r.v)
        ELSE zf_abort(Pop2(z), ZF_ABORT_INVALID_SIZE)

PrimPoke(z) ==
    LET d2 == Top(z)
        addr == Top2(z)
        d1 == Top3(z)
    IN  IF addr >= 0 /\ addr < ZF_USERVAR_COUNT
        THEN SetUservar(Pop3(z), addr, d1)
        ELSE dict_put_cell_typed(Pop3(z), addr, d1, d2).z

(* The cell is popped and counted but not stored. *)
PrimEmit_NoStore(z) ==
    LET pos == z.write_pos + 1
    IN  [Pop(z) EXCEPT !.write_pos = IF pos = WRITE_BUF_MAX THEN 0 ELSE pos]

(* The write position is not wrapped. *)
PrimEmit_NoWrap(z) ==
    [Pop(z) EXCEPT
        !.sram = MemWrite(@, WRITE_BUF + 4 * z.write_pos, CellBytes(Top(z))),
        !.write_pos = z.write_pos + 1]

(* *(WRITE_BUF + write_pos++) = d1, then the wrap at WRITE_BUF_MAX. *)
PrimEmit(z) ==
    LET pos == z.write_pos + 1
    IN  [Pop(z) EXCEPT
            !.sram = MemWrite(@, WRITE_BUF + 4 * z.write_pos, CellBytes(Top(z))),
            !.write_pos = IF pos = WRITE_BUF_MAX THEN 0 ELSE pos]

PrimDevRead(z) ==
    IF Top(z) >= 0
    THEN zf_push(Pop(z), MemByte(z.sram, Top(z)))
    ELSE [zf_push(Pop(z), z.u) EXCEPT !.oob = TRUE]

PrimDevWrite(z) ==
    IF Top(z) >= 0
    THEN [Pop2(z) EXCEPT !.sram = MemWrite(@, Top(z), <<Top2(z) % 256>>)]
    ELSE [Pop2(z) EXCEPT !.oob = TRUE]

do_prim(z, op, input) ==
    CASE op = PRIM_COL ->
             IF input = NULL
             THEN [z EXCEPT !.input_state = ZF_INPUT_PASS_WORD]
             ELSE SetUservar(create(z, input, 0), ZF_USERVAR_COMPILING, 1)
      [] op = PRIM_LTZ ->
             zf_push(Pop(z), IF Top(z) < 0 THEN 1 ELSE 0)
      [] op = PRIM_SEMICOL ->
             SetUservar(dict_add_op(z, PRIM_EXIT), ZF_USERVAR_COMPILING, 0)
      [] op = PRIM_LIT ->
             LET o == Operand(z) IN zf_push(o.z, o.v)
      [] op = PRIM_EXIT ->
             [PopR(z) EXCEPT !.ip = TopR(z)]
      [] op = PRIM_LEN -> PrimLen(z)
      [] op = PRIM_PEEK -> PrimPeek(z)
      [] op = PRIM_POKE -> PrimPoke(z)
      [] op = PRIM_SWAP ->
             zf_push(zf_push(Pop2(z), Top(z)), Top2(z))
      [] op = PRIM_ROT ->
             zf_push(zf_push(zf_push(Pop3(z), Top2(z)), Top(z)), Top3(z))
      [] op = PRIM_DROP -> Pop(z)
      [] op = PRIM_DUP ->
             zf_push(zf_push(Pop(z), Top(z)), Top(z))
      [] op = PRIM_ADD ->
             zf_push(Pop2(z), AddCell(Top(z), Top2(z)))
      [] op = PRIM_PICK ->
             [zf_push(Pop(z), zf_pick(Pop(z), Top(z))) EXCEPT
                 !.oob = @ \/ PickOob(z.dsp - 1, Pop(z).dstack, Top(z))]
      [] op = PRIM_PICKR ->
             [zf_push(Pop(z), zf_pickr(Pop(z), Top(z))) EXCEPT
                 !.oob = @ \/ PickOob(z.rsp, z.rstack, Top(z))]
      [] op = PRIM_SUB ->
             zf_push(Pop2(z), SubCell(Top2(z), Top(z)))
      [] op = PRIM_MUL ->
             zf_push(Pop2(z), MulCell(Top(z), Top2(z)))
      [] op = PRIM_DIV ->
             IF Top(z) = 0 THEN zf_abort(Pop(z), ZF_ABORT_DIVISION_BY_ZERO)
             ELSE zf_push(Pop2(z), DivCell(Top2(z), Top(z)))
      [] op = PRIM_MOD ->
             IF Top(z) = 0 THEN zf_abort(Pop(z), ZF_ABORT_DIVISION_BY_ZERO)
             ELSE zf_push(Pop2(z), ModCell(Top2(z), Top(z)))
      [] op = PRIM_IMMEDIATE -> make_immediate(z)
      [] op = PRIM_JMP ->
             LET o == Operand(z) IN [o.z EXCEPT !.ip = o.v]
      [] op = PRIM_JMP0 ->
             LET o == Operand(z)
             IN  IF Top(z) = 0 THEN [Pop(o.z) EXCEPT !.ip = o.v] ELSE Pop(o.z)
      [] op = PRIM_TICK -> PrimTick(z, input)
      [] op = PRIM_COMMA ->
             dict_add_cell_typed(Pop2(z), Top2(z), Top(z))
      [] op = PRIM_COMMENT ->
             IF input = NULL \/ input[1] # 41
             THEN [z EXCEPT !.input_state = ZF_INPUT_PASS_CHAR]
             ELSE z
      [] op = PRIM_PUSHR -> zf_pushr(Pop(z), Top(z))
      [] op = PRIM_POPR -> zf_push(PopR(z), TopR(z))
      [] op = PRIM_EQUAL ->
             zf_push(Pop2(z), IF Top(z) = Top2(z) THEN 1 ELSE 0)
      [] op = PRIM_KEY ->
             IF input = NULL
             THEN [z EXCEPT !.input_state = ZF_INPUT_PASS_CHAR]
             ELSE zf_push(z, input[1])
      [] op = PRIM_LITS ->
             LET o == Operand(z)
             IN  [zf_push(zf_push(o.z, o.z.ip), o.v) EXCEPT
                     !.ip = AddCell(o.z.ip, o.v)]
      [] op = PRIM_AND -> zf_push(Pop2(z), AndCell(Top(z), Top2(z)))
      [] op = PRIM_OR -> zf_push(Pop2(z), OrCell(Top(z), Top2(z)))
      [] op = PRIM_XOR -> zf_push(Pop2(z), XorCell(Top(z), Top2(z)))
      [] op = PRIM_SHL ->
             IF Top(z) >= 0 /\ Top(z) < 32
             THEN zf_push(Pop2(z), ShlCell(Top2(z), Top(z)))
             ELSE [zf_push(Pop2(z), z.u) EXCEPT !.oob = TRUE]
      [] op = PRIM_SHR ->
             IF Top(z) >= 0 /\ Top(z) < 32
             THEN zf_push(Pop2(z), ShrCell(Top2(z), Top(z)))
             ELSE [zf_push(Pop2(z), z.u) EXCEPT !.oob = TRUE]
      [] op = PRIM_DEVREAD -> PrimDevRead(z)
      [] op = PRIM_EMIT -> PrimEmit(z)
      [] op = PRIM_DEVWRITE -> PrimDevWrite(z)
      [] op = PRIM_DEVTEMP -> zf_push(z, z.temp)
      [] op = PRIM_DEVVDD -> zf_push(z, z.vdd)
      [] OTHER -> zf_abort(z, ZF_ABORT_INTERNAL_ERROR)

(***************************************************************************)
(* run: the inner interpreter.  One round of its loop is RunStep; z.input  *)
(* is the input of the round and z.brk is set by the break that follows a  *)
(* request for input.  The loop of at most n rounds is split in halves; a  *)
(* run that has not ended after MaxRun rounds is taken not to end, and     *)
(* sets z.hang.                                                            *)
(***************************************************************************)
Running(z) == z.abort = 0 /\ ~z.hang /\ ~z.brk /\ z.ip # 0

(* run breaks without taking ip back to the primitive. *)
RunPrim_NoRestore(z2, ip_org) ==
    IF z2.abort # 0 \/ z2.hang THEN z2
    ELSE IF z2.input_state # ZF_INPUT_INTERPRET
         THEN [z2 EXCEPT !.brk = TRUE]
         ELSE [z2 EXCEPT !.input = NULL]

(* run keeps its input for the rounds after the first. *)
RunPrim_KeepsInput(z2, ip_org) ==
    IF z2.abort # 0 \/ z2.hang THEN z2
    ELSE IF z2.input_state # ZF_INPUT_INTERPRET
         THEN [z2 EXCEPT !.ip = ip_org, !.brk = TRUE]
         ELSE z2

(* After do_prim in run: a primitive that asked for input makes run break  *)
(* with ip back at the primitive.                                          *)
RunPrim(z2, ip_org) ==
    IF z2.abort # 0 \/ z2.hang THEN z2
    ELSE IF z2.input_state # ZF_INPUT_INTERPRET
         THEN [z2 EXCEPT !.ip = ip_org, !.brk = TRUE]
         ELSE [z2 EXCEPT !.input = NULL]

(* One round of run's loop, c the cell read at ip. *)
RunCell(z, c) ==
    IF c.v >= 0 /\ c.v <= PRIM_COUNT
    THEN CHOOSE r \in {RunPrim(z2, z.ip) :
                          z2 \in {do_prim([z EXCEPT !.ip = AddCell(z.ip, c.l)],
                                          c.v, z.input)}} : TRUE
    ELSE [zf_pushr([z EXCEPT !.ip = AddCell(z.ip, c.l)], AddCell(z.ip, c.l))
             EXCEPT !.ip = c.v, !.input = NULL]

RunStep(z) ==
    CHOOSE r \in {RunCell(z, c) : c \in {dict_get_cell(z, z.ip)}} : TRUE

RECURSIVE RunLoop(_, _)
RunLoop(z, n) ==
    IF ~Running(z) THEN z
    ELSE IF n = 1 THEN RunStep(z)
    ELSE CHOOSE r \in {RunLoop(h, n - (n \div 2)) :
                          h \in {RunLoop(z, n \div 2)}} : TRUE

(* A loop still running after MaxRun rounds counts as one that never ends. *)
RunEnd(r) ==
    [r EXCEPT !.input = NULL, !.brk = FALSE, !.hang = @ \/ Running(r)]

run(z, input) ==
    CHOOSE e \in {RunEnd(r) :
                     r \in {RunLoop([z EXCEPT !.input = input, !.brk = FALSE],
                                    MaxRun)}} : TRUE

(* z.xret records ip, rsp and input_state at the return of execute. *)
ExecuteReturn(r) ==
    IF r.abort # 0 \/ r.hang THEN r
    ELSE [r EXCEPT !.xret = <<[ip |-> r.ip, rsp |-> r.rsp,
                               input_state |-> r.input_state]>>]

execute(z, addr) ==
    CHOOSE e \in {ExecuteReturn(r) :
                     r \in {run(zf_pushr([z EXCEPT !.ip = addr, !.rsp = 0,
                                                   !.rstack = <<>>], 0),
                                NULL)}} : TRUE

(***************************************************************************)
(* zf_host_parse_num: sscanf("%li%n"): an optional sign, then a hex (0x),  *)
(* octal (0) or decimal integer; it must end the word.                     *)
(***************************************************************************)
DigitOf(c) ==
    IF c >= 48 /\ c <= 57 THEN c - 48
    ELSE IF c >= 97 /\ c <= 102 THEN c - 87
    ELSE IF c >= 65 /\ c <= 70 THEN c - 55
    ELSE 99

(* The digits of buf from k on, in the given base: end is the index after  *)
(* the last digit, v the value (held at MaxCell when it does not fit).     *)
RECURSIVE Digits(_, _, _, _)
Digits(buf, k, base, acc) ==
    IF k > Len(buf) \/ DigitOf(buf[k]) >= base THEN [end |-> k, v |-> acc]
    ELSE LET d == DigitOf(buf[k])
         IN  Digits(buf, k + 1, base,
                    IF acc > (MaxCell - d) \div base THEN MaxCell
                    ELSE acc * base + d)

zf_host_parse_num(buf) ==
    LET neg == buf[1] = 45
        s == IF buf[1] \in {43, 45} THEN 2 ELSE 1
        hex == /\ Len(buf) >= s + 2
               /\ buf[s] = 48
               /\ buf[s + 1] \in {120, 88}
               /\ DigitOf(buf[s + 2]) < 16
        oct == Len(buf) >= s /\ buf[s] = 48
        r == IF hex THEN Digits(buf, s + 2, 16, 0)
             ELSE IF oct THEN Digits(buf, s, 8, 0)
             ELSE Digits(buf, s, 10, 0)
        first == IF hex THEN s + 2 ELSE s
    IN  [ok |-> r.end > first /\ r.end = Len(buf) + 1,
         v |-> IF neg THEN -r.v ELSE r.v]

(***************************************************************************)
(* handle_word and handle_char.                                            *)
(***************************************************************************)
HasFlag(flags, f) == (flags \div f) % 2 = 1

(* A word met while compiling is dropped instead of being appended. *)
WordFound_SkipsCompile(z, f, flags) ==
    IF COMPILING(z) # 0 /\
       (POSTPONE(z) # 0 \/ ~HasFlag(flags, ZF_FLAG_IMMEDIATE))
    THEN SetUservar(z, ZF_USERVAR_POSTPONE, 0)
    ELSE execute(z, f.code)

(* The word found at f.word with flags: compile it or execute it. *)
WordFound(z, f, flags) ==
    IF COMPILING(z) # 0 /\
       (POSTPONE(z) # 0 \/ ~HasFlag(flags, ZF_FLAG_IMMEDIATE))
    THEN SetUservar(
             IF HasFlag(flags, ZF_FLAG_PRIM)
             THEN dict_add_op(z, dict_get_cell(z, f.code).v)
             ELSE dict_add_op(z, f.code),
             ZF_USERVAR_POSTPONE, 0)
    ELSE execute(z, f.code)

(* A number met while compiling is appended without the lit before it. *)
WordNumber_NoLit(z, n) ==
    IF ~n.ok THEN zf_abort(z, ZF_ABORT_NOT_A_WORD)
    ELSE IF COMPILING(z) # 0 THEN dict_add_cell(z, n.v)
    ELSE zf_push(z, n.v)

(* No word of that name: a number, or an abort. *)
WordNumber(z, n) ==
    IF ~n.ok THEN zf_abort(z, ZF_ABORT_NOT_A_WORD)
    ELSE IF COMPILING(z) # 0 THEN dict_add_lit(z, n.v)
    ELSE zf_push(z, n.v)

(* f is the result of find_word; a walk of the links that does not end is  *)
(* a loop that does not end.                                               *)
WordLookedUp(z, buf, f) ==
    IF f.found THEN WordFound(z, f, dict_get_cell(z, f.word).v)
    ELSE IF f.w # 0 THEN [z EXCEPT !.hang = TRUE]
    ELSE WordNumber(z, zf_host_parse_num(buf))

handle_word(z, buf) ==
    IF z.input_state = ZF_INPUT_PASS_WORD
    THEN run([z EXCEPT !.input_state = ZF_INPUT_INTERPRET], buf)
    ELSE CHOOSE r \in {WordLookedUp(z, buf, f) :
                          f \in {find_word(z, buf)}} : TRUE

isspace(c) == c \in {9, 10, 11, 12, 13, 32}

(* buf holds at most sizeof(buf) - 1 characters of a word. *)
handle_char(z, c) ==
    IF z.input_state = ZF_INPUT_PASS_CHAR
    THEN run([z EXCEPT !.input_state = ZF_INPUT_INTERPRET], <<c>>)
    ELSE IF c # 0 /\ ~isspace(c)
         THEN IF Len(z.buf) < 31 THEN [z EXCEPT !.buf = Append(@, c)] ELSE z
         ELSE IF Len(z.buf) > 0
              THEN handle_word([z EXCEPT !.buf = <<>>], z.buf)
              ELSE z

(***************************************************************************)
(* zf_init and zf_bootstrap.                                               *)
(***************************************************************************)
zf_init(temp, vdd) ==
    [dict |-> LE(ZF_USERVAR_COUNT * 4, 4) \o Zeros(16),
     dsp |-> 0, dstack |-> <<>>, rsp |-> 0, rstack |-> <<>>, ip |-> 0,
     input_state |-> ZF_INPUT_INTERPRET, buf |-> <<>>, abort |-> 0,
     sram |-> <<>>, write_pos |-> 0, temp |-> temp, vdd |-> vdd,
     input |-> NULL, brk |-> FALSE, hang |-> FALSE, oob |-> FALSE, u |-> 0,
     xret |-> <<>>]

(* A name that starts with '_' names an immediate primitive. *)
add_prim(z, name, op) ==
    LET imm == name[1] = 95
        z1 == create(z, IF imm THEN Tail(name) ELSE name, ZF_FLAG_PRIM)
        z2 == dict_add_op(dict_add_op(z1, op), PRIM_EXIT)
    IN  IF imm THEN make_immediate(z2) ELSE z2

add_uservar(z, name, addr) ==
    dict_add_op(dict_add_lit(create(z, name, 0), addr), PRIM_EXIT)

(* The stacks are left as the abort found them. *)
AbortReturn_KeepsStacks(z) ==
    [SetUservar(z, ZF_USERVAR_COMPILING, 0) EXCEPT !.abort = 0]

(* The else branch of zf_eval: the return after an abort. *)
AbortReturn(z) ==
    [SetUservar(z, ZF_USERVAR_COMPILING, 0) EXCEPT
        !.rsp = 0, !.rstack = <<>>, !.dsp = 0, !.dstack = <<>>, !.abort = 0]

(***************************************************************************)
(* The tables of zforth.c as sequences of character codes: prim_names (in  *)
(* the order of zf_prim), uservar_names and std_lib, the library that      *)
(* init_interpreter evaluates after the bootstrap.                         *)
(***************************************************************************)
prim_names ==
    <<
      <<101, 120, 105, 116>>,   \* 0 exit
      <<108, 105, 116>>,   \* 1 lit
      <<60, 48>>,   \* 2 <0
      <<58>>,   \* 3 :
      <<95, 59>>,   \* 4 _;
      <<43>>,   \* 5 +
      <<45>>,   \* 6 -
      <<42>>,   \* 7 *
      <<47>>,   \* 8 /
      <<37>>,   \* 9 %
      <<100, 114, 111, 112>>,   \* 10 drop
      <<100, 117, 112>>,   \* 11 dup
      <<112, 105, 99, 107, 114>>,   \* 12 pickr
      <<95, 105, 109, 109, 101, 100, 105, 97, 116, 101>>,   \* 13 _immediate
      <<64, 64>>,   \* 14 @@
      <<33, 33>>,   \* 15 !!
      <<115, 119, 97, 112>>,   \* 16 swap
      <<114, 111, 116>>,   \* 17 rot
      <<106, 109, 112>>,   \* 18 jmp
      <<106, 109, 112, 48>>,   \* 19 jmp0
      <<39>>,   \* 20 '
      <<95, 40>>,   \* 21 _(
      <<62, 114>>,   \* 22 >r
      <<114, 62>>,   \* 23 r>
      <<61>>,   \* 24 =
      <<115, 121, 115>>,   \* 25 sys
      <<112, 105, 99, 107>>,   \* 26 pick
      <<44, 44>>,   \* 27 ,,
      <<107, 101, 121>>,   \* 28 key
      <<108, 105, 116, 115>>,   \* 29 lits
      <<35, 35>>,   \* 30 ##
      <<38>>,   \* 31 &
      <<124>>,   \* 32 |
      <<94>>,   \* 33 ^
      <<60, 60>>,   \* 34 <<
      <<62, 62>>,   \* 35 >>
      <<46>>,   \* 36 .
      <<64, 68>>,   \* 37 @D
      <<33, 68>>,   \* 38 !D
      <<64, 84>>,   \* 39 @T
      <<64, 86>>   \* 40 @V
    >>

uservar_names ==
    <<
      <<104>>,   \* 0 h
      <<108, 97, 116, 101, 115, 116>>,   \* 1 latest
      <<116, 114, 97, 99, 101>>,   \* 2 trace
      <<99, 111, 109, 112, 105, 108, 105, 110, 103>>,   \* 3 compiling
      <<95, 112, 111, 115, 116, 112, 111, 110, 101>>   \* 4 _postpone
    >>

std_lib ==
    \* : .. dup . ; \n
       <<58, 32, 46, 46, 32, 100, 117, 112, 32, 46, 32, 59, 32, 10>>
    \* : cr 10 . ; \n
    \o <<58, 32, 99, 114, 32, 49, 48, 32, 46, 32, 59, 32, 10>>
    \* : br 32 . ; \n
    \o <<58, 32, 98, 114, 32, 51, 50, 32, 46, 32, 59, 32, 10>>
    \* : !    0 !! ; \n
    \o <<58, 32, 33, 32, 32, 32, 32, 48, 32, 33, 33, 32, 59, 32, 10>>
    \* : @    0 @@ ; \n
    \o <<58, 32, 64, 32, 32, 32, 32, 48, 32, 64, 64, 32, 59, 32, 10>>
    \* : ,    0 ,, ; \n
    \o <<58, 32, 44, 32, 32, 32, 32, 48, 32, 44, 44, 32, 59, 32, 10>>
    \* : #    0 ## ; \n
    \o <<58, 32, 35, 32, 32, 32, 32, 48, 32, 35, 35, 32, 59, 32, 10>>
    \* : [ 0 compiling ! ; immediate \n
    \o <<58, 32, 91, 32, 48, 32, 99, 111, 109, 112, 105, 108, 105, 110,
         103, 32, 33, 32, 59, 32, 105, 109, 109, 101, 100, 105, 97, 116,
         101, 32, 10>>
    \* : ] 1 compiling ! ; \n
    \o <<58, 32, 93, 32, 49, 32, 99, 111, 109, 112, 105, 108, 105, 110,
         103, 32, 33, 32, 59, 32, 10>>
    \* : postpone 1 _postpone ! ; immediate \n
    \o <<58, 32, 112, 111, 115, 116, 112, 111, 110, 101, 32, 49, 32, 95,
         112, 111, 115, 116, 112, 111, 110, 101, 32, 33, 32, 59, 32, 105,
         109, 109, 101, 100, 105, 97, 116, 101, 32, 10>>
    \* : 1+ 1 + ; \n
    \o <<58, 32, 49, 43, 32, 49, 32, 43, 32, 59, 32, 10>>
    \* : 1- 1 - ; \n
    \o <<58, 32, 49, 45, 32, 49, 32, 45, 32, 59, 32, 10>>
    \* : over 1 pick ;\n
    \o <<58, 32, 111, 118, 101, 114, 32, 49, 32, 112, 105, 99, 107, 32, 59,
         10>>
    \* : +!   dup @ rot + swap ! ; \n
    \o <<58, 32, 43, 33, 32, 32, 32, 100, 117, 112, 32, 64, 32, 114, 111,
         116, 32, 43, 32, 115, 119, 97, 112, 32, 33, 32, 59, 32, 10>>
    \* : inc  1 swap +! ; \n
    \o <<58, 32, 105, 110, 99, 32, 32, 49, 32, 115, 119, 97, 112, 32, 43,
         33, 32, 59, 32, 10>>
    \* : dec  -1 swap +! ; \n
    \o <<58, 32, 100, 101, 99, 32, 32, 45, 49, 32, 115, 119, 97, 112, 32,
         43, 33, 32, 59, 32, 10>>
    \* : <    - <0 ; \n
    \o <<58, 32, 60, 32, 32, 32, 32, 45, 32, 60, 48, 32, 59, 32, 10>>
    \* : >    swap < ; \n
    \o <<58, 32, 62, 32, 32, 32, 32, 115, 119, 97, 112, 32, 60, 32, 59, 32,
         10>>
    \* : <=   over over >r >r < r> r> = + ; \n
    \o <<58, 32, 60, 61, 32, 32, 32, 111, 118, 101, 114, 32, 111, 118, 101,
         114, 32, 62, 114, 32, 62, 114, 32, 60, 32, 114, 62, 32, 114, 62,
         32, 61, 32, 43, 32, 59, 32, 10>>
    \* : >=   swap <= ; \n
    \o <<58, 32, 62, 61, 32, 32, 32, 115, 119, 97, 112, 32, 60, 61, 32, 59,
         32, 10>>
    \* : =0   0 = ; \n
    \o <<58, 32, 61, 48, 32, 32, 32, 48, 32, 61, 32, 59, 32, 10>>
    \* : not  =0 ; \n
    \o <<58, 32, 110, 111, 116, 32, 32, 61, 48, 32, 59, 32, 10>>
    \* : !=   = not ; \n
    \o <<58, 32, 33, 61, 32, 32, 32, 61, 32, 110, 111, 116, 32, 59, 32, 10>>
    \* : here h @ ; \n
    \o <<58, 32, 104, 101, 114, 101, 32, 104, 32, 64, 32, 59, 32, 10>>
    \* : begin here ; immediate \n
    \o <<58, 32, 98, 101, 103, 105, 110, 32, 104, 101, 114, 101, 32, 59,
         32, 105, 109, 109, 101, 100, 105, 97, 116, 101, 32, 10>>
    \* : again ' jmp , , ; immediate \n
    \o <<58, 32, 97, 103, 97, 105, 110, 32, 39, 32, 106, 109, 112, 32, 44,
         32, 44, 32, 59, 32, 105, 109, 109, 101, 100, 105, 97, 116, 101,
         32, 10>>
    \* : until ' jmp0 , , ; immediate \n
    \o <<58, 32, 117, 110, 116, 105, 108, 32, 39, 32, 106, 109, 112, 48,
         32, 44, 32, 44, 32, 59, 32, 105, 109, 109, 101, 100, 105, 97, 116,
         101, 32, 10>>
    \* : { ' lit , 0 , ' >r , here ; immediate \n
    \o <<58, 32, 123, 32, 39, 32, 108, 105, 116, 32, 44, 32, 48, 32, 44,
         32, 39, 32, 62, 114, 32, 44, 32, 104, 101, 114, 101, 32, 59, 32,
         105, 109, 109, 101, 100, 105, 97, 116, 101, 32, 10>>
    \* : x} ' r> , ' 1+ , ' dup , ' >r , ' = , postpone until ' r> , ' drop , ; immediate \n
    \o <<58, 32, 120, 125, 32, 39, 32, 114, 62, 32, 44, 32, 39, 32, 49, 43,
         32, 44, 32, 39, 32, 100, 117, 112, 32, 44, 32, 39, 32, 62, 114,
         32, 44, 32, 39, 32, 61, 32, 44, 32, 112, 111, 115, 116, 112, 111,
         110, 101, 32, 117, 110, 116, 105, 108, 32, 39, 32, 114, 62, 32,
         44, 32, 39, 32, 100, 114, 111, 112, 32, 44, 32, 59, 32, 105, 109,
         109, 101, 100, 105, 97, 116, 101, 32, 10>>
    \* : exe ' lit , here dup , ' >r , ' >r , ' exit , here swap ! ; immediate \n
    \o <<58, 32, 101, 120, 101, 32, 39, 32, 108, 105, 116, 32, 44, 32, 104,
         101, 114, 101, 32, 100, 117, 112, 32, 44, 32, 39, 32, 62, 114, 32,
         44, 32, 39, 32, 62, 114, 32, 44, 32, 39, 32, 101, 120, 105, 116,
         32, 44, 32, 104, 101, 114, 101, 32, 115, 119, 97, 112, 32, 33, 32,
         59, 32, 105, 109, 109, 101, 100, 105, 97, 116, 101, 32, 10>>
    \* : times { >r dup >r exe r> r> dup x} drop drop ; \n
    \o <<58, 32, 116, 105, 109, 101, 115, 32, 123, 32, 62, 114, 32, 100,
         117, 112, 32, 62, 114, 32, 101, 120, 101, 32, 114, 62, 32, 114,
         62, 32, 100, 117, 112, 32, 120, 125, 32, 100, 114, 111, 112, 32,
         100, 114, 111, 112, 32, 59, 32, 10>>
    \* : if      ' jmp0 , here 999 , ; immediate \n
    \o <<58, 32, 105, 102, 32, 32, 32, 32, 32, 32, 39, 32, 106, 109, 112,
         48, 32, 44, 32, 104, 101, 114, 101, 32, 57, 57, 57, 32, 44, 32,
         59, 32, 105, 109, 109, 101, 100, 105, 97, 116, 101, 32, 10>>
    \* : unless  ' not , postpone if ; immediate \n
    \o <<58, 32, 117, 110, 108, 101, 115, 115, 32, 32, 39, 32, 110, 111,
         116, 32, 44, 32, 112, 111, 115, 116, 112, 111, 110, 101, 32, 105,
         102, 32, 59, 32, 105, 109, 109, 101, 100, 105, 97, 116, 101, 32,
         10>>
    \* : else    ' jmp , here 999 , swap here swap ! ; immediate \n
    \o <<58, 32, 101, 108, 115, 101, 32, 32, 32, 32, 39, 32, 106, 109, 112,
         32, 44, 32, 104, 101, 114, 101, 32, 57, 57, 57, 32, 44, 32, 115,
         119, 97, 112, 32, 104, 101, 114, 101, 32, 115, 119, 97, 112, 32,
         33, 32, 59, 32, 105, 109, 109, 101, 100, 105, 97, 116, 101, 32,
         10>>
    \* : fi      here swap ! ; immediate \n
    \o <<58, 32, 102, 105, 32, 32, 32, 32, 32, 32, 104, 101, 114, 101, 32,
         115, 119, 97, 112, 32, 33, 32, 59, 32, 105, 109, 109, 101, 100,
         105, 97, 116, 101, 32, 10>>
    \* : i ' lit , 0 , ' pickr , ; immediate \n
    \o <<58, 32, 105, 32, 39, 32, 108, 105, 116, 32, 44, 32, 48, 32, 44,
         32, 39, 32, 112, 105, 99, 107, 114, 32, 44, 32, 59, 32, 105, 109,
         109, 101, 100, 105, 97, 116, 101, 32, 10>>
    \* : j ' lit , 2 , ' pickr , ; immediate \n
    \o <<58, 32, 106, 32, 39, 32, 108, 105, 116, 32, 44, 32, 50, 32, 44,
         32, 39, 32, 112, 105, 99, 107, 114, 32, 44, 32, 59, 32, 105, 109,
         109, 101, 100, 105, 97, 116, 101, 32, 10>>
    \* : do ' swap , ' >r , ' >r , here ; immediate \n
    \o <<58, 32, 100, 111, 32, 39, 32, 115, 119, 97, 112, 32, 44, 32, 39,
         32, 62, 114, 32, 44, 32, 39, 32, 62, 114, 32, 44, 32, 104, 101,
         114, 101, 32, 59, 32, 105, 109, 109, 101, 100, 105, 97, 116, 101,
         32, 10>>
    \* : loop+ ' r> , ' + , ' dup , ' >r , ' lit , 1 , ' pickr , ' > , ' jmp0 , , ' r> , ' drop , ' r> , ' drop , ; immediate \n
    \o <<58, 32, 108, 111, 111, 112, 43, 32, 39, 32, 114, 62, 32, 44, 32,
         39, 32, 43, 32, 44, 32, 39, 32, 100, 117, 112, 32, 44, 32, 39, 32,
         62, 114, 32, 44, 32, 39, 32, 108, 105, 116, 32, 44, 32, 49, 32,
         44, 32, 39, 32, 112, 105, 99, 107, 114, 32, 44, 32, 39, 32, 62,
         32, 44, 32, 39, 32, 106, 109, 112, 48, 32, 44, 32, 44, 32, 39, 32,
         114, 62, 32, 44, 32, 39, 32, 100, 114, 111, 112, 32, 44, 32, 39,
         32, 114, 62, 32, 44, 32, 39, 32, 100, 114, 111, 112, 32, 44, 32,
         59, 32, 105, 109, 109, 101, 100, 105, 97, 116, 101, 32, 10>>
    \* : loop ' lit , 1 , postpone loop+ ;  immediate \n
    \o <<58, 32, 108, 111, 111, 112, 32, 39, 32, 108, 105, 116, 32, 44, 32,
         49, 32, 44, 32, 112, 111, 115, 116, 112, 111, 110, 101, 32, 108,
         111, 111, 112, 43, 32, 59, 32, 32, 105, 109, 109, 101, 100, 105,
         97, 116, 101, 32, 10>>
    \* : s" compiling @ if ' lits , here 0 , fi here begin key dup 34 = if drop compiling @ if here swap - swap ! else dup here swap - fi exit else , fi again ; immediate \n
    \o <<58, 32, 115, 34, 32, 99, 111, 109, 112, 105, 108, 105, 110, 103,
         32, 64, 32, 105, 102, 32, 39, 32, 108, 105, 116, 115, 32, 44, 32,
         104, 101, 114, 101, 32, 48, 32, 44, 32, 102, 105, 32, 104, 101,
         114, 101, 32, 98, 101, 103, 105, 110, 32, 107, 101, 121, 32, 100,
         117, 112, 32, 51, 52, 32, 61, 32, 105, 102, 32, 100, 114, 111,
         112, 32, 99, 111, 109, 112, 105, 108, 105, 110, 103, 32, 64, 32,
         105, 102, 32, 104, 101, 114, 101, 32, 115, 119, 97, 112, 32, 45,
         32, 115, 119, 97, 112, 32, 33, 32, 101, 108, 115, 101, 32, 100,
         117, 112, 32, 104, 101, 114, 101, 32, 115, 119, 97, 112, 32, 45,
         32, 102, 105, 32, 101, 120, 105, 116, 32, 101, 108, 115, 101, 32,
         44, 32, 102, 105, 32, 97, 103, 97, 105, 110, 32, 59, 32, 105, 109,
         109, 101, 100, 105, 97, 116, 101, 32, 10>>

(***************************************************************************)
(* State.  Per device: the globals of main.c, the two DMA receptions       *)
(* (armed or not), the pending receive-complete interrupts, and trace, the *)
(* link operations of the device's latest main-loop iteration.  down[i] is *)
(* the link into device i's up-link UART (USART1), upw[i] the link into    *)
(* its down-link UART (USART3).  ctrlTx and ctrlRx are what the controller *)
(* has sent and received.                                                  *)
(***************************************************************************)
VARIABLES buffer, transport_buffer, bytes_rx, packet, checksum, sram,
          write_pos, zf, upArmed, dnArmed, irq, trace, down, upw,
          ctrlTx, ctrlRx, vm, dev, isr, cell

vars == <<buffer, transport_buffer, bytes_rx, packet, checksum, sram,
          write_pos, zf, upArmed, dnArmed, irq, trace, down, upw,
          ctrlTx, ctrlRx, vm, dev, isr, cell>>

(* The variables of the chain, and those the chain never touches: the VM   *)
(* and the position of a single device (vm, dev), the up-link transmitter  *)
(* seen call by call (isr) and the cell codec (cell).                      *)
chainVars == <<buffer, transport_buffer, bytes_rx, packet, checksum, sram,
               write_pos, zf, upArmed, dnArmed, irq, trace, down, upw,
               ctrlTx, ctrlRx>>
offChain == <<vm, dev, isr, cell>>

memVars == <<sram, write_pos, zf>>

(***************************************************************************)
(* The packets the controller may send.                                    *)
(***************************************************************************)
DataX == [k \in 1..DATA_SIZE |-> k]

CmdIn == {ACK, PING, READ, WRITE, SENSORS, LOAD, EXEC, RETR, ERR, 0}

(* The option values the controller uses with each command: the selectors  *)
(* of PING and SENSORS (and one value that is none of them), the reset     *)
(* flag of EXEC, a block index otherwise.                                  *)
OptIn(c) ==
    CASE c = PING    -> {OWN, ALL, 7}
      [] c = SENSORS -> {ALL, VDD}
      [] c = EXEC    -> {0, 1}
      [] c \in {READ, WRITE} -> {7}
      [] c \in {LOAD, RETR} -> {0}
      [] OTHER -> {0}

DataIn(c) == IF c \in {WRITE, LOAD} THEN {DataX} ELSE {Zeros(DATA_SIZE)}

UidIn == {UID[n] : n \in Nodes} \cup {Zeros(UID_SIZE)}
PicIn == {254}
SensorIn == {<<700, 1500>>, <<701, 1500>>}

(* A packet with its checksum filled in as the controller does; corrupt    *)
(* adds 1 to the checksum field.                                           *)
CtrlPacket(c, pic, opt, uid, data, corrupt) ==
    LET p == [command |-> c, pic |-> pic, options |-> opt, uid |-> uid,
              data |-> data, checksum |-> 0]
        crc == crc16(0, PacketImage(p))
    IN  PacketImage([p EXCEPT !.checksum =
                        IF corrupt THEN (crc + 1) % 65536 ELSE crc])

CtrlPackets ==
    UNION {{CtrlPacket(c, pic, opt, uid, data, corrupt) :
               pic \in PicIn, opt \in OptIn(c), uid \in UidIn,
               data \in DataIn(c), corrupt \in BOOLEAN} : c \in CmdIn}

ZeroPacket ==
    [command |-> 0, pic |-> 0, options |-> 0, uid |-> Zeros(UID_SIZE),
     data |-> Zeros(DATA_SIZE), checksum |-> 0]

ChainInit ==
    /\ buffer = [i \in Nodes |-> Zeros(PACKET_SIZE)]
    /\ transport_buffer = [i \in Nodes |-> Zeros(PACKET_SIZE)]
    /\ bytes_rx = [i \in Nodes |-> 0]
    /\ packet = [i \in Nodes |-> ZeroPacket]
    /\ checksum = [i \in Nodes |-> 0]
    /\ sram = [i \in Nodes |-> <<>>]
    /\ write_pos = [i \in Nodes |-> 0]
    /\ zf = [i \in Nodes |-> [dsp |-> 0]]
    /\ upArmed = [i \in Nodes |-> TRUE]
    /\ dnArmed = [i \in Nodes |-> TRUE]
    /\ irq = [i \in Nodes |-> {}]
    /\ trace = [i \in Nodes |-> <<>>]
    /\ down = [i \in Nodes |-> <<>>]
    /\ upw = [i \in Nodes |-> <<>>]
    /\ ctrlTx = <<>>
    /\ ctrlRx = <<>>

Init ==
    /\ ChainInit
    /\ vm = <<>>
    /\ dev = <<>>
    /\ isr = <<>>
    /\ cell = <<>>

(***************************************************************************)
(* Link effects of a sequence of link operations issued by device i.       *)
(***************************************************************************)
Sel(ev, op, link) == SelectSeq(ev, LAMBDA e : e.op = op /\ e.link = link)

Pkts(ev) == [k \in 1..Len(ev) |-> ev[k].pkt]

TxUp(ev) == Pkts(Sel(ev, "tx", "up"))
TxDown(ev) == Pkts(Sel(ev, "tx", "down"))

(* Bytes device i transmits on USART1 reach the device above it, or the    *)
(* controller.                                                             *)
SendUp(i, pkts) ==
    IF i = 1
    THEN /\ ctrlRx' = ctrlRx \o pkts
         /\ upw' = upw
    ELSE /\ upw' = [upw EXCEPT ![i - 1] = @ \o pkts]
         /\ ctrlRx' = ctrlRx

(* Bytes device i transmits on USART3 reach the device below it, if any.   *)
SendDown(i, pkts) ==
    down' = IF i < NumNodes THEN [down EXCEPT ![i + 1] = @ \o pkts] ELSE down

(* Nothing is in flight and every device waits for its next packet. *)
Quiet ==
    \A i \in Nodes :
        down[i] = <<>> /\ upw[i] = <<>> /\ irq[i] = {} /\ bytes_rx[i] = 0

(* The controller transmits one packet to the first device, once the chain *)
(* has gone quiet after the packet before.                                 *)
ControllerSend ==
    /\ Len(ctrlTx) < MaxSend
    /\ Quiet
    /\ \E p \in CtrlPackets :
          /\ ctrlTx' = Append(ctrlTx, p)
          /\ down' = [down EXCEPT ![1] = Append(@, p)]
    /\ UNCHANGED <<buffer, transport_buffer, bytes_rx, packet, checksum,
                   sram, write_pos, zf, upArmed, dnArmed, irq, trace, upw,
                   ctrlRx>>
    /\ UNCHANGED offChain

(* A packet reaches the up-link UART of device i.  With the DMA reception  *)
(* armed it completes the reception: PACKET_SIZE bytes are in buffer, the  *)
(* reception is no longer armed and the interrupt is pending.  With no     *)
(* reception armed the bytes are lost.                                     *)
UartRxUp(i) ==
    /\ down[i] # <<>>
    /\ irq[i] = {}
    /\ down' = [down EXCEPT ![i] = Tail(@)]
    /\ IF upArmed[i]
       THEN /\ buffer' = [buffer EXCEPT ![i] = Head(down[i])]
            /\ upArmed' = [upArmed EXCEPT ![i] = FALSE]
            /\ irq' = [irq EXCEPT ![i] = {"USART1"}]
       ELSE UNCHANGED <<buffer, upArmed, irq>>
    /\ UNCHANGED <<transport_buffer, bytes_rx, packet, checksum, sram,
                   write_pos, zf, dnArmed, trace, upw, ctrlTx, ctrlRx>>
    /\ UNCHANGED offChain

(* The down-link DMA reception of device i completes. *)
UartRxDown(i) ==
    /\ upw[i] # <<>>
    /\ irq[i] = {}
    /\ dnArmed[i]
    /\ transport_buffer' = [transport_buffer EXCEPT ![i] = Head(upw[i])]
    /\ dnArmed' = [dnArmed EXCEPT ![i] = FALSE]
    /\ irq' = [irq EXCEPT ![i] = {"USART3"}]
    /\ upw' = [upw EXCEPT ![i] = Tail(@)]
    /\ UNCHANGED <<buffer, bytes_rx, packet, checksum, sram, write_pos, zf,
                   upArmed, trace, down, ctrlTx, ctrlRx>>
    /\ UNCHANGED offChain

(* Relays the up-link receive buffer instead of the pass-through buffer. *)
send_buffer_WrongBuffer(i) == SendUp(i, <<buffer[i]>>)

(* send_buffer(&huart1, transport_buffer, PACKET_SIZE) *)
send_buffer(i) == SendUp(i, <<transport_buffer[i]>>)

(* HAL_UART_Receive_DMA(&huart3, transport_buffer, PACKET_SIZE) *)
RearmDown(i) == dnArmed' = [dnArmed EXCEPT ![i] = TRUE]

HAL_UART_RxCpltCallback(i) ==
    /\ irq[i] # {}
    /\ irq' = [irq EXCEPT ![i] = {}]
    /\ IF "USART1" \in irq[i]
       THEN bytes_rx' = [bytes_rx EXCEPT ![i] = @ + PACKET_SIZE]
       ELSE bytes_rx' = bytes_rx
    /\ IF "USART3" \in irq[i]
       THEN send_buffer(i) /\ RearmDown(i)
       ELSE UNCHANGED <<upw, ctrlRx, dnArmed>>
    /\ UNCHANGED <<buffer, transport_buffer, packet, checksum, sram,
                   write_pos, zf, upArmed, trace, down, ctrlTx>>
    /\ UNCHANGED offChain

(* The state an iteration of device i starts from. *)
Working(i, s) ==
    [i |-> i, packet |-> packet[i], buffer |-> buffer[i],
     checksum |-> checksum[i], sram |-> sram[i], write_pos |-> write_pos[i],
     zf |-> zf[i], temp |-> s[1] % 65536, vdd |-> s[2] % 65536,
     ret |-> 0, ev |-> <<>>, wr |-> <<>>]

MainLoop(i) ==
    /\ bytes_rx[i] >= PACKET_SIZE
    /\ irq[i] = {}
    /\ \E s \in SensorIn, o \in EvalOutcomes(MemByte(sram[i], SRC_BUF)) :
          \E r \in {Iteration(Working(i, s), o)} :
              /\ packet' = [packet EXCEPT ![i] = r.packet]
              /\ buffer' = [buffer EXCEPT ![i] = r.buffer]
              /\ checksum' = [checksum EXCEPT ![i] = r.checksum]
              /\ sram' = [sram EXCEPT ![i] = r.sram]
              /\ write_pos' = [write_pos EXCEPT ![i] = r.write_pos]
              /\ zf' = [zf EXCEPT ![i] = r.zf]
              /\ trace' = [trace EXCEPT ![i] = r.ev]
              /\ SendUp(i, TxUp(r.ev))
              /\ SendDown(i, TxDown(r.ev))
              /\ upArmed' = [upArmed EXCEPT ![i] =
                                @ \/ Sel(r.ev, "reset", "up") # <<>>]
              /\ dnArmed' = [dnArmed EXCEPT ![i] =
                                @ \/ Sel(r.ev, "reset", "down") # <<>>]
    /\ bytes_rx' = [bytes_rx EXCEPT ![i] = 0]
    /\ UNCHANGED <<transport_buffer, irq, ctrlTx>>
    /\ UNCHANGED offChain

Next ==
    \/ ControllerSend
    \/ \E i \in Nodes : UartRxUp(i)
    \/ \E i \in Nodes : UartRxDown(i)
    \/ \E i \in Nodes : HAL_UART_RxCpltCallback(i)
    \/ \E i \in Nodes : MainLoop(i)

Spec == Init /\ [][Next]_vars

(***************************************************************************)
(* Vocabulary of the properties.                                           *)
(***************************************************************************)
(* Device i has run at least one main-loop iteration. *)
Processed(i) == trace[i] # <<>>

(* The packet the latest iteration of device i received, as bytes and as   *)
(* fields.                                                                 *)
Rx(i) == trace[i][1].pkt
RxP(i) == parse_packet(Rx(i))

(* The receive-side verification of lines 176-184 applied to the bytes b.  *)
Valid(b) == parse_packet(b).checksum = crc16(0, ZeroChecksum(b))

(* This step is a main-loop iteration of device i. *)
Step(i) == bytes_rx[i] >= PACKET_SIZE /\ bytes_rx'[i] = 0

(* This step is the down-link branch of the receive-complete callback of   *)
(* device i.                                                               *)
Relay(i) == "USART3" \in irq[i] /\ irq'[i] = {}

(* The link device i transmits upward on, as a sequence of packets. *)
UpLink(i) == IF i = 1 THEN ctrlRx ELSE upw[i - 1]

Routed == {READ, WRITE, SENSORS, LOAD, EXEC, RETR}

(* The received packet as the main loop holds it after counting the hop    *)
(* and refreshing the checksum.                                            *)
Hopped(b) ==
    LET p == parse_packet(b)
        q == [p EXCEPT !.pic = (p.pic + 1) % 256]
    IN  PacketImage([q EXCEPT !.checksum =
                        crc16(0, ZeroChecksum(PacketImage(q)))])

(* The controller has sent exactly one packet, a checksum-valid PING with  *)
(* the given option, and the chain has gone quiet again.                   *)
PingDone(opt) ==
    /\ Quiet
    /\ Len(ctrlTx) = 1
    /\ Valid(ctrlTx[1])
    /\ parse_packet(ctrlTx[1]).command = PING
    /\ parse_packet(ctrlTx[1]).options = opt

RECURSIVE UpTraffic(_)
UpTraffic(i) == IF i > NumNodes THEN <<>> ELSE TxUp(trace[i]) \o UpTraffic(i + 1)

(***************************************************************************)
(* C1: when an up-link packet fails checksum verification, the device      *)
(* transmits exactly one packet upward for it (ERR, options 1, refreshed   *)
(* checksum), re-arms the up-link receive and waits for the next packet    *)
(* without entering command dispatch.                                      *)
(***************************************************************************)
C1_OneErrOnMismatch ==
    \A i \in Nodes :
        (Processed(i) /\ ~Valid(Rx(i))) =>
            /\ Len(trace[i]) = 3
            /\ trace[i][2].op = "tx" /\ trace[i][2].link = "up"
            /\ parse_packet(trace[i][2].pkt).command = ERR
            /\ parse_packet(trace[i][2].pkt).options = 1
            /\ Valid(trace[i][2].pkt)
            /\ trace[i][3] = ResetEvent("up")

(***************************************************************************)
(* C2: an up-link packet that fails checksum verification is never         *)
(* transmitted on the down-link and has no local side effect, whatever its *)
(* command, options and uid: the memory surface (SRAM blocks, SRC_BUF,     *)
(* WRITE_BUF), write_pos and the VM state are the same after the iteration *)
(* as before.                                                              *)
(***************************************************************************)
C2_MismatchStep(i) ==
    (Step(i) /\ ~Valid(Rx(i)')) =>
        /\ TxDown(trace'[i]) = <<>>
        /\ down' = down
        /\ sram'[i] = sram[i]
        /\ write_pos'[i] = write_pos[i]
        /\ zf'[i] = zf[i]

C2_MismatchHasNoEffect == [][\A i \in Nodes : C2_MismatchStep(i)]_vars

(* A corrupted WRITE addressed to the device itself has been processed. *)
C2_Witness ==
    \E i \in Nodes :
        /\ Processed(i) /\ ~Valid(Rx(i))
        /\ RxP(i).command = WRITE /\ RxP(i).uid = UID[i]
        /\ upArmed[i]

(***************************************************************************)
(* C3: every packet the main loop transmits, upward or downward, on every  *)
(* dispatch path, carries a checksum equal to the CRC of the transmitted   *)
(* contents (with the incremented pic and the checksum bytes zeroed), so   *)
(* the receive-side verification of the next device accepts it.            *)
(***************************************************************************)
C3_EveryTxHasFreshChecksum ==
    \A i \in Nodes : \A k \in 2..Len(trace[i]) :
        trace[i][k].op = "tx" => Valid(trace[i][k].pkt)

(***************************************************************************)
(* C4: for every received up-link packet, whatever its command, options    *)
(* and uid, processing ends with the up-link receive re-armed: a device    *)
(* that waits for its next packet has its up-link reception armed.         *)
(***************************************************************************)
C4_WaitingMeansArmed ==
    \A i \in Nodes : (bytes_rx[i] < PACKET_SIZE /\ irq[i] = {}) => upArmed[i]

(***************************************************************************)
(* C5: every upward transmission made for a received packet happens before *)
(* the up-link receive is re-armed for the next one: no upward             *)
(* transmission follows RESET_UPWARDS within an iteration.                 *)
(***************************************************************************)
C5_NoTxUpAfterResetUp ==
    \A i \in Nodes : \A j, k \in 1..Len(trace[i]) :
        (j < k /\ trace[i][j] = ResetEvent("up")) =>
            ~(trace[i][k].op = "tx" /\ trace[i][k].link = "up")

(***************************************************************************)
(* C6: a checksum-valid READ, WRITE, SENSORS, LOAD, EXEC or RETR whose uid *)
(* is not the device's own is transmitted on the down-link (hop counted,   *)
(* checksum refreshed); the device transmits nothing upward for it and has *)
(* no local side effect: no SRAM or SRC_BUF write, no VM evaluation, no    *)
(* change of write_pos.                                                    *)
(***************************************************************************)
C6_ForwardStep(i) ==
    (/\ Step(i)
     /\ Valid(Rx(i)')
     /\ RxP(i)'.command \in Routed
     /\ RxP(i)'.uid # UID[i]) =>
        /\ TxDown(trace'[i]) = <<Hopped(Rx(i)')>>
        /\ TxUp(trace'[i]) = <<>>
        /\ UpLink(i)' = UpLink(i)
        /\ sram'[i] = sram[i]
        /\ write_pos'[i] = write_pos[i]
        /\ zf'[i] = zf[i]

C6_NonLocalIsForwardedOnly == [][\A i \in Nodes : C6_ForwardStep(i)]_vars

(* A valid WRITE for another device has been forwarded. *)
C6_Witness ==
    \E i \in Nodes :
        /\ Processed(i) /\ Valid(Rx(i))
        /\ RxP(i).command = WRITE /\ RxP(i).uid # UID[i]
        /\ Len(TxDown(trace[i])) = 1

(***************************************************************************)
(* C7: each device increments pic exactly once per received up-link        *)
(* packet: every packet the main loop sends for a received packet has pic  *)
(* equal to the received pic plus 1 modulo 256, and a packet relayed       *)
(* upward by the down-link pass-through keeps its pic.                     *)
(***************************************************************************)
C7_HopCounted ==
    \A i \in Nodes :
        Processed(i) =>
            /\ packet[i].pic = (RxP(i).pic + 1) % 256
            /\ \A k \in 2..Len(trace[i]) :
                   trace[i][k].op = "tx" =>
                       parse_packet(trace[i][k].pkt).pic = (RxP(i).pic + 1) % 256

C7_RelayStep(i) ==
    Relay(i) =>
        /\ Len(UpLink(i)') = Len(UpLink(i)) + 1
        /\ parse_packet(UpLink(i)'[Len(UpLink(i)')]).pic
               = parse_packet(transport_buffer[i]).pic

C7_PicOncePerHop == []C7_HopCounted /\ [][\A i \in Nodes : C7_RelayStep(i)]_vars

(* A device received pic 255 and answered with pic 0, and the answer       *)
(* reached the controller through the pass-through with pic 0.             *)
C7_Witness ==
    \E i \in Nodes :
        /\ i > 1 /\ Processed(i) /\ RxP(i).pic = 255
        /\ TxUp(trace[i]) # <<>>
        /\ \E k \in 1..Len(ctrlRx) :
              ctrlRx[k] = TxUp(trace[i])[1] /\ parse_packet(ctrlRx[k]).pic = 0

(***************************************************************************)
(* C8: targeted ping in a chain of three: for a checksum-valid PING/OWN    *)
(* whose uid is device 2's, device 1 forwards it downward without          *)
(* replying, device 2 answers with an ACK whose options is its RAM size    *)
(* (and no ERR), the ACK reaches the controller through device 1's         *)
(* pass-through, and device 3 receives nothing.                            *)
(***************************************************************************)
C8_TargetedPing ==
    (/\ NumNodes >= 3
     /\ PingDone(OWN)
     /\ parse_packet(ctrlTx[1]).uid = UID[2]) =>
        /\ TxUp(trace[1]) = <<>>
        /\ Len(TxDown(trace[1])) = 1
        /\ Len(TxUp(trace[2])) = 1
        /\ parse_packet(TxUp(trace[2])[1]).command = ACK
        /\ parse_packet(TxUp(trace[2])[1]).options = sram_size(2)
        /\ TxDown(trace[2]) = <<>>
        /\ ctrlRx = TxUp(trace[2])
        /\ ~Processed(3)

(***************************************************************************)
(* C9: enumeration in a chain of NumNodes devices: for one checksum-valid  *)
(* PING/ALL from the controller (any uid), every device sends exactly one  *)
(* ACK upward carrying its own UID and options = its RAM size, sends it    *)
(* before forwarding, and forwards exactly one checksum-valid PING/ALL     *)
(* downward; the controller receives exactly NumNodes ACKs, one per        *)
(* device.                                                                 *)
(***************************************************************************)
C9_DeviceAnswer(i) ==
    LET e == trace[i]
        ack == parse_packet(e[2].pkt)
        fwd == parse_packet(e[4].pkt)
    IN  /\ Len(e) = 5
        /\ e[2].op = "tx" /\ e[2].link = "up"
        /\ ack.command = ACK /\ ack.uid = UID[i] /\ ack.options = sram_size(i)
        /\ Valid(e[2].pkt)
        /\ e[3] = ResetEvent("up")
        /\ e[4].op = "tx" /\ e[4].link = "down"
        /\ fwd.command = PING /\ fwd.options = ALL
        /\ Valid(e[4].pkt)
        /\ e[5] = ResetEvent("down")

C9_Enumeration ==
    PingDone(ALL) =>
        /\ \A i \in Nodes : C9_DeviceAnswer(i)
        /\ Len(ctrlRx) = NumNodes
        /\ \A i \in Nodes : \E k \in 1..Len(ctrlRx) : ctrlRx[k] = trace[i][2].pkt

(* One PING/ALL has been answered by the whole chain. *)
C9_Witness ==
    /\ PingDone(ALL)
    /\ Len(ctrlRx) = NumNodes
    /\ \A i \in Nodes : Processed(i)
    /\ parse_packet(ctrlTx[1]).uid = Zeros(UID_SIZE)

(***************************************************************************)
(* C10: every complete packet that arrives on the down-link is transmitted *)
(* on the up-link byte for byte (no pic increment, no checksum             *)
(* verification, no dispatch, no change of the main loop's packet state)   *)
(* and the down-link receive is re-armed afterwards; packets are relayed   *)
(* in arrival order.                                                       *)
(***************************************************************************)
C10_RelayStep(i) ==
    Relay(i) =>
        /\ UpLink(i)' = Append(UpLink(i), transport_buffer[i])
        /\ dnArmed'[i]
        /\ transport_buffer' = transport_buffer
        /\ UNCHANGED <<packet, buffer, checksum, bytes_rx, trace, upArmed,
                       down, sram, write_pos, zf>>

(* After one controller packet the controller has received what the        *)
(* devices transmitted upward, device by device down the chain.            *)
C10_InOrder == (Quiet /\ Len(ctrlTx) = 1) => ctrlRx = UpTraffic(1)

Source(text) == text \o Zeros(DATA_SIZE - Len(text))

(* : inc 1 + ; 41 inc . : the program of the scenario: it defines inc and emits 42 *)
ProgInc == Source(<<58, 32, 105, 110, 99, 32, 49, 32, 43, 32, 59, 32, 52,
    49, 32, 105, 110, 99, 32, 46, 32>>)

(* 1 0 / 5 .: divides by zero with / *)
ProgDiv == Source(<<49, 32, 48, 32, 47, 32, 53, 32, 46>>)

(* 7 0 % 5 .: divides by zero with % *)
ProgMod == Source(<<55, 32, 48, 32, 37, 32, 53, 32, 46>>)

(* 5 .: emits 5 *)
ProgFive == Source(<<53, 32, 46>>)

(* 7 .. .. .. .. .. .. .. .. .: emits nine cells *)
ProgNine == Source(<<55, 32, 46, 46, 32, 46, 46, 32, 46, 46, 32, 46, 46,
    32, 46, 46, 32, 46, 46, 32, 46, 46, 32, 46, 46, 32, 46>>)

(* : f 29 0 do i . loop ; f: the library's loop runs through its limit, so *)
(* this emits 0..29, which leaves write_pos at the last cell of the result *)
(* buffer.                                                                 *)
LoopCells == 30

ProgLoop == Source(<<58, 32, 102, 32, 50, 57, 32, 48, 32, 100, 111, 32,
    105, 32, 46, 32, 108, 111, 111, 112, 32, 59, 32, 102>>)

(* 1 nosuch 5 .: a token that is no word and no number *)
ProgNaw == Source(<<49, 32, 110, 111, 115, 117, 99, 104, 32, 53, 32, 46>>)

(* 1 99 9 !! 5 .: a poke with a size selector that is none of the eight *)
ProgSize == Source(<<49, 32, 57, 57, 32, 57, 32, 33, 33, 32, 53, 32, 46>>)

(* 1 sys 5 .: the primitive sys, which do_prim does not implement *)
ProgSys == Source(<<49, 32, 115, 121, 115, 32, 53, 32, 46>>)

(* : g nosuch: a token that is no word and no number, inside a definition *)
ProgOpen == Source(<<58, 32, 103, 32, 110, 111, 115, 117, 99, 104>>)

(* : f 0 >r ; f: a word that leaves a 0 of its own on the return stack *)
ProgRpush == Source(<<58, 32, 102, 32, 48, 32, 62, 114, 32, 59, 32, 102>>)

DevPrograms == {ProgInc, ProgFive, ProgLoop, ProgRpush}

DevSensors == <<700, 1500>>

(* What a read outside an array may yield. *)
UbCells == {0, 1}

DevPacket(c, opt, data) == CtrlPacket(c, 254, opt, UID[1], data, FALSE)

(* The controller runs programs and fetches the first block of results. *)
DevPackets ==
    {DevPacket(LOAD, 0, d) : d \in DevPrograms}
        \cup {DevPacket(EXEC, o, Zeros(DATA_SIZE)) : o \in {0, 1}}
        \cup {DevPacket(RETR, 0, Zeros(DATA_SIZE))}

DataY == [k \in 1..DATA_SIZE |-> 200 + k]

(* The blocks the controller reads and writes: one in the middle of the    *)
(* memory, and the one after the block where WRITE_BUF starts.             *)
MemBlocks == {7, WRITE_BUF_OFFSET + 1}

(* The controller reads and writes blocks, and fetches results. *)
MemPackets ==
    {DevPacket(WRITE, k, d) : k \in MemBlocks, d \in {DataX, DataY}}
        \cup {DevPacket(READ, k, Zeros(DATA_SIZE)) : k \in MemBlocks}
        \cup {DevPacket(RETR, k, Zeros(DATA_SIZE)) : k \in {0, 1}}
        \cup {DevPacket(LOAD, 0, ProgNine),
              DevPacket(EXEC, 1, Zeros(DATA_SIZE))}

(* The device after zf_init, with the packets the controller may send. *)
DevStart(menu) ==
    /\ ChainInit
    /\ vm = zf_init(0, 0)
    /\ dev = [phase |-> "bootstrap", k |-> 1, n |-> 0, ret |-> 0,
              menu |-> menu]
    /\ isr = <<>>
    /\ cell = <<>>

DevInit == DevStart(DevPackets)

devIdle == <<transport_buffer, bytes_rx, zf, dnArmed, irq, down, upw, isr,
             cell>>

(* zf_bootstrap: one add_prim or add_uservar. *)
zf_bootstrap ==
    /\ dev.phase = "bootstrap"
    /\ vm' = IF dev.k <= Len(prim_names)
             THEN add_prim(vm, prim_names[dev.k], dev.k - 1)
             ELSE add_uservar(vm, uservar_names[dev.k - Len(prim_names)],
                              dev.k - Len(prim_names) - 1)
    /\ dev' = IF dev.k = Len(prim_names) + Len(uservar_names)
              THEN [dev EXCEPT !.phase = "lib", !.k = 1]
              ELSE [dev EXCEPT !.k = @ + 1]
    /\ UNCHANGED <<buffer, packet, checksum, sram, write_pos, upArmed, trace,
                   ctrlTx, ctrlRx>>
    /\ UNCHANGED devIdle

(* The character zf_eval is at. *)
SourceChar ==
    IF dev.phase = "lib"
    THEN IF dev.k <= Len(std_lib) THEN std_lib[dev.k] ELSE 0
    ELSE MemByte(sram[1], SRC_BUF + (dev.k - 1))

(* The VM with the globals of main.c it works on, and back. *)
VmIn(u) ==
    [vm EXCEPT !.sram = sram[1], !.write_pos = write_pos[1], !.u = u,
               !.temp = IF dev.phase = "lib" THEN 0 ELSE DevSensors[1],
               !.vdd = IF dev.phase = "lib" THEN 0 ELSE DevSensors[2],
               !.xret = <<>>, !.oob = FALSE]

VmOut(z) == [z EXCEPT !.sram = <<>>, !.write_pos = 0, !.u = 0]

(* zf_eval returns r to init_interpreter or to eval_cmd. *)
EvalReturn(r) ==
    dev' = IF dev.phase = "lib"
           THEN [dev EXCEPT !.phase = "wait", !.k = 1]
           ELSE [dev EXCEPT !.phase = "reply", !.k = 1, !.ret = r]

(* zf_eval: one round of its loop, or its return after an abort. *)
zf_eval ==
    /\ dev.phase \in {"lib", "exec"}
    /\ \E u \in UbCells :
       \E r \in {handle_char(VmIn(u), SourceChar)} :
          /\ r.oob \/ u = 0
          /\ sram' = [sram EXCEPT ![1] = r.sram]
          /\ write_pos' = [write_pos EXCEPT ![1] = r.write_pos]
          /\ IF r.hang
             THEN /\ vm' = VmOut(r)
                  /\ dev' = [dev EXCEPT !.phase = "hung"]
             ELSE IF r.abort # 0
             THEN /\ vm' = VmOut(AbortReturn(r))
                  /\ EvalReturn(r.abort)
             ELSE /\ vm' = VmOut(r)
                  /\ IF SourceChar = 0 THEN EvalReturn(ZF_OK)
                     ELSE dev' = [dev EXCEPT !.k = @ + 1]
    /\ UNCHANGED <<buffer, packet, checksum, upArmed, trace, ctrlTx, ctrlRx>>
    /\ UNCHANGED devIdle

NoEval == [r |-> ZF_OK, emit |-> <<>>, dsp |-> 0]

(* The working state of the device's main loop. *)
DevWorking == [Working(1, DevSensors) EXCEPT !.ev = trace[1]]

LocalExec(st) ==
    /\ st.checksum = st.packet.checksum
    /\ st.packet.command = EXEC
    /\ STR_MATCH(UID[1], st.packet.uid)

(* The controller's next packet arrives and the main loop takes it: up to  *)
(* the call of eval_cmd for a local EXEC, through the whole iteration      *)
(* otherwise.                                                              *)
DevReceive ==
    /\ dev.phase = "wait"
    /\ dev.n < MaxCmds
    /\ upArmed[1]
    /\ \E p \in dev.menu :
       \E h \in {OnMismatch(Receive([DevWorking EXCEPT !.buffer = p]))} :
       \E r \in {IF LocalExec(h) THEN ExecBegin(h) ELSE Dispatch(h, NoEval)} :
          /\ ctrlTx' = Append(ctrlTx, p)
          /\ ctrlRx' = ctrlRx \o TxUp(r.ev)
          /\ buffer' = [buffer EXCEPT ![1] = r.buffer]
          /\ packet' = [packet EXCEPT ![1] = r.packet]
          /\ checksum' = [checksum EXCEPT ![1] = r.checksum]
          /\ sram' = [sram EXCEPT ![1] = r.sram]
          /\ write_pos' = [write_pos EXCEPT ![1] = r.write_pos]
          /\ trace' = [trace EXCEPT ![1] = r.ev]
          /\ upArmed' = [upArmed EXCEPT ![1] = Sel(r.ev, "reset", "up") # <<>>]
          /\ dev' = [dev EXCEPT
                        !.phase = IF LocalExec(h) THEN "exec" ELSE "wait",
                        !.k = 1,
                        !.n = @ + 1]
    /\ UNCHANGED vm
    /\ UNCHANGED devIdle

(* eval_cmd has returned dev.ret: the rest of case EXEC. *)
ExecReply ==
    /\ dev.phase = "reply"
    /\ \E r \in {ExecEnd([DevWorking EXCEPT !.ev = <<>>], dev.ret)} :
          /\ ctrlRx' = ctrlRx \o TxUp(r.ev)
          /\ buffer' = [buffer EXCEPT ![1] = r.buffer]
          /\ packet' = [packet EXCEPT ![1] = r.packet]
          /\ trace' = [trace EXCEPT ![1] = @ \o r.ev]
          /\ upArmed' = [upArmed EXCEPT ![1] = Sel(r.ev, "reset", "up") # <<>>]
    /\ dev' = [dev EXCEPT !.phase = "wait"]
    /\ UNCHANGED <<checksum, sram, write_pos, ctrlTx, vm>>
    /\ UNCHANGED devIdle

DevNext ==
    \/ zf_bootstrap
    \/ zf_eval
    \/ DevReceive
    \/ ExecReply

SpecDev == DevInit /\ [][DevNext]_vars

MemInit == DevStart(MemPackets)

(* The controller runs programs that abort, and one that does not. *)
AbortPrograms ==
    {ProgDiv, ProgMod, ProgNaw, ProgSize, ProgSys, ProgOpen, ProgFive}

AbortPackets ==
    {DevPacket(LOAD, 0, d) : d \in AbortPrograms}
        \cup {DevPacket(EXEC, 1, Zeros(DATA_SIZE))}

AbortInit == DevStart(AbortPackets)

SpecAbort == AbortInit /\ [][DevNext]_vars

SpecMem == MemInit /\ [][DevNext]_vars

(***************************************************************************)
(* What the controller sent and received, as packets: in SpecDev, SpecMem  *)
(* the device answers every packet once, so reply j answers request j.     *)
(***************************************************************************)
Req(j) == parse_packet(ctrlTx[j])
Rsp(j) == parse_packet(ctrlRx[j])

(* The device takes its next request, with command c. *)
Took(c) ==
    /\ Len(ctrlTx') = Len(ctrlTx) + 1
    /\ parse_packet(ctrlTx'[Len(ctrlTx) + 1]).command = c

(* Request w is a WRITE, request r a later READ of the same block, and     *)
(* every request between them is a READ or a RETR.                         *)
WriteThenRead(w, r) ==
    /\ w < r
    /\ Req(w).command = WRITE
    /\ Req(r).command = READ
    /\ Req(r).options = Req(w).options
    /\ \A m \in (w + 1)..(r - 1) : Req(m).command \in {READ, RETR}

(* The reply to request r is an ACK that carries data. *)
AckWith(r, data) ==
    /\ Len(ctrlRx) >= r
    /\ Rsp(r).command = ACK
    /\ Rsp(r).data = data

(* C12: a READ of block k that follows an ACKed WRITE of X to block k,     *)
(* with no WRITE, LOAD or EXEC in between, is answered by an ACK whose     *)
(* data is X; and a READ leaves the memory surface unchanged.              *)
C12_WriteReadRoundTrip ==
    [][Took(READ) =>
          /\ sram' = sram
          /\ Len(ctrlRx') = Len(ctrlTx) + 1
          /\ \A w \in 1..Len(ctrlTx) :
                (WriteThenRead(w, Len(ctrlTx)))' =>
                    /\ Rsp(w).command = ACK
                    /\ (AckWith(Len(ctrlTx), Req(w).data))']_vars

(* A WRITE of DataY to the block after WRITE_BUF's, a RETR, then the READ  *)
(* of that block answered with DataY.                                      *)
C12_Witness ==
    /\ Len(ctrlRx) = 3
    /\ Len(ctrlTx) = 3
    /\ WriteThenRead(1, 3)
    /\ Req(2).command = RETR
    /\ Req(1).options = WRITE_BUF_OFFSET + 1
    /\ Req(1).data = DataY
    /\ AckWith(3, DataY)

(***************************************************************************)
(* Programs: requests j, j + 1 are a LOAD of the source at SRC_BUF and the *)
(* EXEC that follows it.                                                   *)
(***************************************************************************)
LoadExec(j, prog, opt) ==
    /\ j + 1 <= Len(ctrlTx)
    /\ Req(j).command = LOAD
    /\ Req(j).options = 0
    /\ Req(j).data = prog
    /\ Req(j + 1).command = EXEC
    /\ Req(j + 1).options = opt

(* The first 32-bit little-endian word of the data of reply r. *)
FirstWord(r) == SubSeq(Rsp(r).data, 1, 4)

(* C13: after LOAD of ": inc 1 + ; 41 inc . " and EXEC with options 1,    *)
(* the EXEC is answered by ACK with options 0, and a RETR with options 0   *)
(* that follows returns data whose first little-endian word is 42.         *)
C13_IncProgram ==
    \A j \in 1..Len(ctrlTx) :
        LoadExec(j, ProgInc, 1) /\ Len(ctrlRx) >= j + 1 =>
            /\ Rsp(j + 1).command = ACK
            /\ Rsp(j + 1).options = ZF_OK
            /\ (/\ Len(ctrlRx) >= j + 2
                /\ Req(j + 2).command = RETR
                /\ Req(j + 2).options = 0) =>
                    /\ Rsp(j + 2).command = ACK
                    /\ FirstWord(j + 2) = CellBytes(42)

(* The scenario run after another program has emitted cells. *)
C13_Witness ==
    /\ Len(ctrlRx) = 4
    /\ Req(1).command = EXEC
    /\ LoadExec(2, ProgInc, 1)
    /\ Req(4).command = RETR
    /\ Rsp(3).options = ZF_OK
    /\ FirstWord(4) = CellBytes(42)

(***************************************************************************)
(* The result buffer.                                                      *)
(***************************************************************************)
(* The cell at index k of WRITE_BUF, as its four bytes. *)
WriteBufCell(m, k) == MemRead(m, WRITE_BUF + 4 * k, 4)

(* The VM after '.' is run with cell c on top of the stack, in the current *)
(* state of the device.                                                    *)
Emitted(c) == do_prim(zf_push(VmIn(0), c), PRIM_EMIT, NULL)

(* What '.' does to the stack, the result buffer and write_pos. *)
EmitContract(c, e) ==
    /\ e.abort = 0
    /\ e.dsp = vm.dsp
    /\ e.dstack = vm.dstack
    /\ WriteBufCell(e.sram, write_pos[1]) = CellBytes(c)
    /\ \A a \in DOMAIN e.sram :
          a \notin (WRITE_BUF + 4 * write_pos[1])..(WRITE_BUF + 4 * write_pos[1] + 3)
              => e.sram[a] = MemByte(sram[1], a)
    /\ e.write_pos = (write_pos[1] + 1) % DATA_SIZE

(* Request j + 1 is answered: the program loaded by request j has run. *)
Ran(j, prog, opt) == LoadExec(j, prog, opt) /\ Len(ctrlRx) >= j + 1

TookExec(o) ==
    /\ Took(EXEC)
    /\ parse_packet(ctrlTx'[Len(ctrlTx) + 1]).options = o

(* Two runs of the program that emits 5: the second with options o. *)
FiveTwice(o) ==
    /\ Ran(1, ProgFive, 1)
    /\ Len(ctrlTx) = 3
    /\ Len(ctrlRx) = 3
    /\ Req(3).command = EXEC
    /\ Req(3).options = o

(* C15: EXEC with options 1 sets write_pos to 0 before the evaluation, so  *)
(* the first cell emitted lands in WRITE_BUF[0]; EXEC with options 0       *)
(* leaves write_pos as it was, so its cells follow the earlier ones; and   *)
(* no step outside an EXEC changes write_pos.                              *)
C15_WritePosAcrossExec ==
    [][/\ TookExec(1) => write_pos'[1] = 0 /\ dev'.phase = "exec"
       /\ TookExec(0) => write_pos'[1] = write_pos[1] /\ dev'.phase = "exec"
       /\ ~Took(EXEC) /\ dev.phase # "exec" => write_pos' = write_pos
       /\ (FiveTwice(1))' =>
             /\ write_pos'[1] = 1
             /\ WriteBufCell(sram'[1], 0) = CellBytes(5)
       /\ (FiveTwice(0))' =>
             /\ write_pos'[1] = 2
             /\ WriteBufCell(sram'[1], 0) = CellBytes(5)
             /\ WriteBufCell(sram'[1], 1) = CellBytes(5)]_vars

(* The loop program, then the program that emits 5 run with options 1: it  *)
(* overwrote cell 0 and left the cells after it.                           *)
C15_Witness ==
    /\ Len(ctrlRx) = 4
    /\ Ran(1, ProgLoop, 1)
    /\ Ran(3, ProgFive, 1)
    /\ write_pos[1] = 1
    /\ WriteBufCell(sram[1], 0) = CellBytes(5)
    /\ WriteBufCell(sram[1], 1) = CellBytes(1)

(* C16: a RETR with block index k is answered by an ACK whose data is the  *)
(* D bytes at byte offset k * D from the start of WRITE_BUF, so that the   *)
(* blocks tile the result buffer.                                          *)
C16_RetrTilesBuffer ==
    [][Took(RETR) =>
          /\ Len(ctrlRx') = Len(ctrlTx) + 1
          /\ (Rsp(Len(ctrlTx)).command)' = ACK
          /\ (Rsp(Len(ctrlTx)).data)' =
                MemRead(sram[1],
                        WRITE_BUF + DATA_SIZE * (Req(Len(ctrlTx)).options)',
                        DATA_SIZE)]_vars

(***************************************************************************)
(* Aborts.                                                                 *)
(***************************************************************************)
(* The EXEC of request j + 1 has been answered and nothing was sent since. *)
JustRan(j, prog, opt) ==
    Ran(j, prog, opt) /\ Len(ctrlTx) = j + 1 /\ dev.phase = "wait"

(* C17: an EXEC of a program that divides by zero with / or % is answered  *)
(* by an ACK whose options is DIVISION_BY_ZERO, the words after the        *)
(* failing one are not executed (nothing is emitted), and the EXEC of a    *)
(* valid program after it is answered with options 0 and emits that        *)
(* program's result.                                                       *)
C17_DivisionByZero ==
    \A j \in 1..Len(ctrlTx) : \A prog \in {ProgDiv, ProgMod} :
        Ran(j, prog, 1) =>
            /\ Rsp(j + 1).command = ACK
            /\ Rsp(j + 1).options = ZF_ABORT_DIVISION_BY_ZERO
            /\ JustRan(j, prog, 1) => write_pos[1] = 0 /\ vm.dsp = 0
            /\ Ran(j + 2, ProgFive, 1) =>
                  /\ Rsp(j + 3).command = ACK
                  /\ Rsp(j + 3).options = ZF_OK
                  /\ JustRan(j + 2, ProgFive, 1) =>
                        /\ write_pos[1] = 1
                        /\ WriteBufCell(sram[1], 0) = CellBytes(5)

(* 7 0 % aborted, then 5 . ran and emitted 5. *)
C17_Witness ==
    /\ Ran(1, ProgMod, 1)
    /\ JustRan(3, ProgFive, 1)
    /\ Rsp(2).options = ZF_ABORT_DIVISION_BY_ZERO
    /\ Rsp(4).options = ZF_OK
    /\ WriteBufCell(sram[1], 0) = CellBytes(5)

(* The reason with which the evaluation aborts at the character it is at   *)
(* (0: it does not abort).                                                 *)
AbortsWith == handle_char(VmIn(0), SourceChar).abort

(* The reason code with which each aborting program of the menu stops. *)
AbortCode(prog) ==
    CASE prog \in {ProgDiv, ProgMod} -> ZF_ABORT_DIVISION_BY_ZERO
      [] prog \in {ProgNaw, ProgOpen} -> ZF_ABORT_NOT_A_WORD
      [] prog = ProgSize               -> ZF_ABORT_INVALID_SIZE
      [] prog = ProgSys                -> ZF_ABORT_INTERNAL_ERROR

(* The answers to the EXEC of each aborting program carry its code. *)
AbortCodesReported ==
    \A j \in 1..Len(ctrlTx) : \A prog \in AbortPrograms \ {ProgFive} :
        Ran(j, prog, 1) =>
            /\ Rsp(j + 1).command = ACK
            /\ Rsp(j + 1).options = AbortCode(prog)

(* C18: when a primitive or the number parser aborts during zf_eval,       *)
(* zf_eval returns the reason code of the abort, which is not 0, with      *)
(* DSP = 0, RSP = 0 and COMPILING = 0 at that return, and the engine puts  *)
(* that code in the options of the ACK of the EXEC.                        *)
C18_AbortReturnsReason ==
    [][/\ dev.phase = "exec" /\ AbortsWith # 0 =>
             /\ dev'.phase = "reply"
             /\ dev'.ret = AbortsWith
             /\ vm'.dsp = 0
             /\ vm'.rsp = 0
             /\ COMPILING(vm') = 0
       /\ dev.phase = "reply" =>
             /\ Len(ctrlRx') = Len(ctrlRx) + 1
             /\ (Rsp(Len(ctrlRx)).command)' = ACK
             /\ (Rsp(Len(ctrlRx)).options)' = dev.ret
       /\ AbortCodesReported']_vars

(* The abort inside an open definition has returned: COMPILING was set and *)
(* the return stack held the sentinel.                                     *)
C18_Witness ==
    /\ dev.phase = "reply"
    /\ dev.ret = ZF_ABORT_NOT_A_WORD
    /\ Req(Len(ctrlTx) - 1).data = ProgOpen
    /\ vm.dsp = 0
    /\ vm.rsp = 0
    /\ COMPILING(vm) = 0

(***************************************************************************)
(* The returns of execute: vm.xret holds ip, rsp and input_state at the    *)
(* return of the execute of the last round of zf_eval, if it had one.      *)
(***************************************************************************)
(* The primitives that switch the input state to ask for a word or a       *)
(* character.                                                              *)
InputPrims == {PRIM_COL, PRIM_TICK, PRIM_COMMENT, PRIM_KEY}

(* The source at SRC_BUF. *)
Loaded == MemRead(sram[1], SRC_BUF, DATA_SIZE)

CellValues ==
    {0, 1, 127, 128, 129, 255, 256, 16383, 16384, 32767, 32768, 65535, 65536,
     MaxCell, -1, -128, -129, -32768, -32769, MinCell}

CellSizes == ZF_MEM_SIZE_VAR..ZF_MEM_SIZE_S32

(* Size selectors that are none of the eight. *)
OtherSizes == {-1, ZF_MEM_SIZE_S32 + 1, 99}

(* The first address after the user variables, and the last at which a     *)
(* five-byte cell fits.                                                    *)
CellAddrs == {ZF_USERVAR_COUNT * 4, ZF_DICT_SIZE - 5}

CellFill == {0, 255}

(* A VM whose dictionary holds the byte b everywhere after the user        *)
(* variables.                                                              *)
FilledVm(b) ==
    [zf_init(0, 0) EXCEPT
        !.dict = [k \in 1..ZF_DICT_SIZE |->
                     IF k <= ZF_USERVAR_COUNT * 4 THEN @[k] ELSE b]]

CellIdle ==
    [phase |-> "idle", v |-> 0, size |-> 0, addr |-> 0, z |-> FilledVm(0),
     l |-> 0, r |-> <<>>]

CellInit ==
    /\ ChainInit
    /\ vm = <<>>
    /\ dev = <<>>
    /\ isr = <<>>
    /\ cell = CellIdle

CellPut ==
    /\ cell.phase = "idle"
    /\ \E v \in CellValues, size \in CellSizes \cup OtherSizes,
          addr \in CellAddrs, b \in CellFill :
       \E p \in {dict_put_cell_typed(FilledVm(b), addr, v, size)} :
          cell' = [cell EXCEPT !.phase = "put", !.v = v, !.size = size,
                               !.addr = addr, !.z = p.z, !.l = p.l]
    /\ UNCHANGED <<chainVars, vm, dev, isr>>

CellGet ==
    /\ cell.phase = "put"
    /\ cell' = [cell EXCEPT
                   !.phase = "got",
                   !.r = <<dict_get_cell_typed(AbortReturn(cell.z), cell.addr,
                                               cell.size)>>]
    /\ UNCHANGED <<chainVars, vm, dev, isr>>

CellDone ==
    /\ cell.phase = "got"
    /\ cell' = CellIdle
    /\ UNCHANGED <<chainVars, vm, dev, isr>>

CellNext ==
    \/ CellPut
    \/ CellGet
    \/ CellDone

SpecCell == CellInit /\ [][CellNext]_vars

(* The length of the variable-length encoding of the cell v. *)
VarLen(v) ==
    IF v >= 0 /\ v <= 127 THEN 1
    ELSE IF v >= 128 /\ v <= 16383 THEN 2
    ELSE 5

(* The bytes a typed size takes. *)
TypedLen(size) ==
    CASE size \in {ZF_MEM_SIZE_U8, ZF_MEM_SIZE_S8} -> 1
      [] size \in {ZF_MEM_SIZE_U16, ZF_MEM_SIZE_S16} -> 2
      [] OTHER -> 4

(* v reduced to n bits, unsigned and signed. *)
LowBits(v, n) == v % (2 ^ n)
SignedBits(v, n) ==
    IF LowBits(v, n) < 2 ^ (n - 1) THEN LowBits(v, n)
    ELSE LowBits(v, n) - 2 ^ n

(* The cell a read in the given size yields after a write of v: a 32-bit   *)
(* size yields the cell itself.                                            *)
Reduced(v, size) ==
    CASE size = ZF_MEM_SIZE_U8 -> LowBits(v, 8)
      [] size = ZF_MEM_SIZE_U16 -> LowBits(v, 16)
      [] size = ZF_MEM_SIZE_S8 -> SignedBits(v, 8)
      [] size = ZF_MEM_SIZE_S16 -> SignedBits(v, 16)
      [] OTHER -> v

(* C20: a cell written in VAR size reads back as itself with the same      *)
(* length (1 byte for 0..127, 2 for 128..16383, else 5 with a leading      *)
(* 0xFF); written and read in a typed size it reads back reduced to the    *)
(* width and signedness of the size; any other size selector aborts with   *)
(* INVALID_SIZE.                                                           *)
C20_CellRoundTrip ==
    /\ cell.phase \in {"put", "got"} /\ cell.size \in CellSizes =>
          /\ cell.z.abort = 0
          /\ cell.l = IF cell.size = ZF_MEM_SIZE_VAR THEN VarLen(cell.v)
                      ELSE TypedLen(cell.size)
          /\ cell.size = ZF_MEM_SIZE_VAR /\ cell.l = 5 =>
                DictByte(cell.z, cell.addr) = 255
    /\ cell.phase \in {"put", "got"} /\ cell.size \notin CellSizes =>
          cell.z.abort = ZF_ABORT_INVALID_SIZE
    /\ cell.phase = "got" /\ cell.size \in CellSizes =>
          /\ cell.r[1].ok
          /\ cell.r[1].l = cell.l
          /\ cell.r[1].v = Reduced(cell.v, cell.size)
    /\ cell.phase = "got" /\ cell.size \notin CellSizes => ~cell.r[1].ok

(* A negative cell has been written in VAR size over a background of 0xFF  *)
(* at the end of the dictionary, and read back.                            *)
C20_Witness ==
    /\ cell.phase = "got"
    /\ cell.size = ZF_MEM_SIZE_VAR
    /\ cell.v = -129
    /\ cell.addr = ZF_DICT_SIZE - 5
    /\ cell.l = 5
    /\ cell.r[1].v = -129

(***************************************************************************)
(* The up-link transmitter of one device seen call by call: the main loop  *)
(* inside send_packet(&huart1, ...) and the down-link completion callback, *)
(* which runs in interrupt context (the DMA interrupts are enabled with    *)
(* priority 0 and the main loop never masks them).                         *)
(***************************************************************************)
(* Packets the main loop sends upward, and packets completing on the       *)
(* down-link.                                                              *)
MaxLocal == 2
MaxRelay == 2

(* The byte counts of the six HAL_UART_Transmit calls of send_packet. *)
FieldLen == <<1, 1, 4, UID_SIZE, DATA_SIZE, 2>>

RECURSIVE FieldOff(_)
(* The offset of field f in the packet image. *)
FieldOff(f) == IF f = 1 THEN 0 ELSE FieldOff(f - 1) + FieldLen[f - 1]

(* What one HAL_UART_Transmit call puts on the wire: field f of local      *)
(* packet n, or the whole of transport_buffer holding relayed packet n.    *)
LocalChunk(n, f) == [from |-> "main", n |-> n, f |-> f, len |-> FieldLen[f]]
RelayChunk(n) == [from |-> "callback", n |-> n, f |-> 0, len |-> PACKET_SIZE]

IsrInit ==
    /\ ChainInit
    /\ vm = <<>>
    /\ dev = <<>>
    /\ cell = <<>>
    /\ isr = [pc |-> 0, busy |-> FALSE, wire |-> <<>>, sent |-> 0,
              arrived |-> 0, pend |-> FALSE, armed |-> TRUE, lost |-> 0]

(* The main loop reaches a send_packet(&huart1, &packet). *)
IsrSendPacket ==
    /\ isr.pc = 0
    /\ isr.sent < MaxLocal
    /\ isr' = [isr EXCEPT !.pc = 1, !.sent = @ + 1]
    /\ UNCHANGED <<chainVars, vm, dev, cell>>

(* HAL_UART_Transmit called by the main loop: the transmitter is taken. *)
IsrTransmitBegin ==
    /\ isr.pc \in 1..6
    /\ ~isr.busy
    /\ isr' = [isr EXCEPT !.busy = TRUE]
    /\ UNCHANGED <<chainVars, vm, dev, cell>>

(* ... and returns once the bytes of the field are out. *)
IsrTransmitEnd ==
    /\ isr.busy
    /\ isr' = [isr EXCEPT !.busy = FALSE,
                          !.wire = Append(@, LocalChunk(isr.sent, isr.pc)),
                          !.pc = IF isr.pc = 6 THEN 0 ELSE isr.pc + 1]
    /\ UNCHANGED <<chainVars, vm, dev, cell>>

(* The DMA completes a packet on the armed down-link. *)
IsrDownComplete ==
    /\ isr.armed
    /\ isr.arrived < MaxRelay
    /\ isr' = [isr EXCEPT !.armed = FALSE, !.pend = TRUE, !.arrived = @ + 1]
    /\ UNCHANGED <<chainVars, vm, dev, cell>>

(* HAL_UART_Transmit called from the callback while the main loop's call   *)
(* holds the transmitter: it returns HAL_BUSY and sends nothing;           *)
(* send_buffer drops the return value.                                     *)
HalTransmit(st, chunk) ==
    IF st.busy THEN [st EXCEPT !.lost = @ + 1]
    ELSE [st EXCEPT !.wire = Append(@, chunk)]

(* HAL_UART_RxCpltCallback for USART3, at whatever point the main loop is: *)
(* send_buffer(&huart1, transport_buffer, PACKET_SIZE), then the down-link *)
(* is re-armed.                                                            *)
IsrCallback ==
    /\ isr.pend
    /\ isr' = [HalTransmit(isr, RelayChunk(isr.arrived)) EXCEPT
                  !.pend = FALSE, !.armed = TRUE]
    /\ UNCHANGED <<chainVars, vm, dev, cell>>

IsrNext ==
    \/ IsrSendPacket
    \/ IsrTransmitBegin
    \/ IsrTransmitEnd
    \/ IsrDownComplete
    \/ IsrCallback

SpecIsr == IsrInit /\ [][IsrNext]_vars

RECURSIVE WireOff(_, _)
(* The number of bytes on the wire before chunk k. *)
WireOff(w, k) == IF k = 1 THEN 0 ELSE WireOff(w, k - 1) + w[k - 1].len

(* Chunk k of the wire lies where it belongs in a P-byte frame: a relayed  *)
(* image starts a frame, field f of a local packet lies at its offset.     *)
InFrame(w, k) ==
    WireOff(w, k) % PACKET_SIZE =
        IF w[k].from = "callback" THEN 0 ELSE FieldOff(w[k].f)

(* The fields of one frame come from one local packet. *)
SamePacket(w, k) ==
    k > 1 /\ w[k].from = "main" /\ w[k].f > 1 =>
        w[k - 1].from = "main" /\ w[k - 1].n = w[k].n /\ w[k - 1].f = w[k].f - 1

(* C11: under every interleaving of the down-link completion callback with *)
(* the main loop, each frame on the up-link is a contiguous P-byte image   *)
(* of one relayed packet or of one locally built packet, and no relayed    *)
(* packet is lost because the transmitter is busy.                         *)
C11_UpLinkFramesWhole ==
    /\ \A k \in 1..Len(isr.wire) : InFrame(isr.wire, k) /\ SamePacket(isr.wire, k)
    /\ isr.lost = 0

(***************************************************************************)
(* C22: a checksum-valid up-link packet whose command is ERR, ACK or any   *)
(* value outside PING, READ, WRITE, SENSORS, LOAD, EXEC, RETR is sent back *)
(* upward exactly once with command, options, uid and data unchanged and a *)
(* recomputed checksum; it is never forwarded downward and has no local    *)
(* side effect, whether or not its uid is the device's own.                *)
(***************************************************************************)
C22_ReflectStep(i) ==
    (/\ Step(i)
     /\ Valid(Rx(i)')
     /\ RxP(i)'.command \notin Routed \cup {PING}) =>
        /\ TxUp(trace'[i]) = <<Hopped(Rx(i)')>>
        /\ parse_packet(TxUp(trace'[i])[1]).command = RxP(i)'.command
        /\ parse_packet(TxUp(trace'[i])[1]).options = RxP(i)'.options
        /\ parse_packet(TxUp(trace'[i])[1]).uid = RxP(i)'.uid
        /\ parse_packet(TxUp(trace'[i])[1]).data = RxP(i)'.data
        /\ Valid(TxUp(trace'[i])[1])
        /\ UpLink(i)' = Append(UpLink(i), Hopped(Rx(i)'))
        /\ TxDown(trace'[i]) = <<>>
        /\ down' = down
        /\ sram'[i] = sram[i]
        /\ write_pos'[i] = write_pos[i]
        /\ zf'[i] = zf[i]

C22_UnknownIsReflected == [][\A i \in Nodes : C22_ReflectStep(i)]_vars

(* A valid packet with an unknown command and the uid of another device    *)
(* has been sent back up.                                                  *)
C22_Witness ==
    \E i \in Nodes :
        /\ Processed(i) /\ Valid(Rx(i))
        /\ RxP(i).command = 0 /\ RxP(i).uid # UID[i]
        /\ TxUp(trace[i]) = <<Hopped(Rx(i))>>

(***************************************************************************)
(* The writes of one iteration to the up-link receive buffer, against its  *)
(* re-arming of the up-link.                                               *)
(***************************************************************************)
(* Every write of buffer in the iteration that ends as r comes before the  *)
(* first RESET_UPWARDS of the iteration.                                   *)
ScratchBeforeReset(r) ==
    \A k \in 1..Len(r.wr) : \A j \in 1..r.wr[k] : r.ev[j] # ResetEvent("up")

(* C27: while the up-link receive is armed the device never writes the     *)
(* up-link receive buffer: in every main-loop iteration, on every dispatch *)
(* path, each use of buffer as scratch space by make_crc comes before      *)
(* RESET_UPWARDS.                                                          *)
C27_ScratchBeforeReset ==
    [][\A i \in Nodes :
          Step(i) =>
              \A s \in SensorIn, o \in EvalOutcomes(MemByte(sram[i], SRC_BUF)) :
                  ScratchBeforeReset(Iteration(Working(i, s), o))]_vars

(***************************************************************************)
(* A controller that loads source blocks around a run: the program that    *)
(* emits 5 in block 0, data in the blocks after it.                        *)
(***************************************************************************)
LoadBlocks == {1, 2, 6}

LoadPackets ==
    {DevPacket(LOAD, k, DataX) : k \in LoadBlocks}
        \cup {DevPacket(LOAD, 0, ProgFive),
              DevPacket(EXEC, 1, Zeros(DATA_SIZE)),
              DevPacket(RETR, 0, Zeros(DATA_SIZE))}

LoadInit == DevStart(LoadPackets)

SpecLoad == LoadInit /\ [][DevNext]_vars

(* The result buffer: the WRITE_BUF_MAX cells PRIM_EMIT writes. *)
ResultBuffer(m) == MemRead(m, WRITE_BUF, 4 * WRITE_BUF_MAX)

(* C30: a local LOAD, for any block index k in options, changes only the D *)
(* bytes at SRC_BUF + k * D and never a byte of the result buffer (the D   *)
(* cells of WRITE_BUF), so the results of an earlier EXEC stay             *)
(* retrievable.                                                            *)
C30_LoadLeavesResults ==
    [][Took(LOAD) =>
          /\ \A a \in DOMAIN sram[1] \cup DOMAIN sram'[1] :
                (a - SRC_BUF) \div DATA_SIZE # (Req(Len(ctrlTx)).options)' =>
                    MemByte(sram'[1], a) = MemByte(sram[1], a)
          /\ ResultBuffer(sram'[1]) = ResultBuffer(sram[1])]_vars

(***************************************************************************)
(* zf_eval as a function: the whole loop over the characters of a source   *)
(* and its terminating 0, from the VM z.  ret is the result code (-1: the  *)
(* evaluation does not return).                                            *)
(***************************************************************************)
RECURSIVE EvalLoop(_, _, _)
EvalStep(r, text, k) ==
    IF r.hang THEN [z |-> r, ret |-> -1]
    ELSE IF r.abort # 0 THEN [z |-> AbortReturn(r), ret |-> r.abort]
    ELSE IF k > Len(text) THEN [z |-> r, ret |-> ZF_OK]
    ELSE EvalLoop(r, text, k + 1)

EvalLoop(z, text, k) ==
    CHOOSE e \in {EvalStep(r, text, k) :
                     r \in {handle_char(z, IF k <= Len(text) THEN text[k]
                                                              ELSE 0)}} : TRUE

EvalBuf(z, text) == EvalLoop(z, text, 1)

(***************************************************************************)
(* The words of the dictionary, by the address of their header.            *)
(***************************************************************************)
WordLink(z, w) == dict_get_cell(z, AddCell(w, dict_get_cell(z, w).l))

WordName(z, w) ==
    dict_get_bytes(z, AddCell(AddCell(w, dict_get_cell(z, w).l), WordLink(z, w).l),
                   ZF_FLAG_LEN(dict_get_cell(z, w).v))

WordFlags(z, w) == dict_get_cell(z, w).v

RECURSIVE WordsFrom(_, _)
WordsFrom(z, w) == IF w = 0 THEN {} ELSE {w} \cup WordsFrom(z, WordLink(z, w).v)

Words(z) == WordsFrom(z, LATEST(z))

(***************************************************************************)
(* A word run directly and run through a definition, from the same VM and  *)
(* the same data stack.                                                    *)
(***************************************************************************)
DualStacks == {<<>>, <<2>>, <<7, 2>>, <<9, 8, 7, 2>>}

(* ": f w ; f" *)
Wrapped(w) == <<58, 32, 102, 32>> \o w \o <<32, 59, 32, 102>>

WithStack(z, st) == [z EXCEPT !.dstack = st, !.dsp = Len(st)]

(* What an evaluation leaves behind, as far as the claim looks at it. *)
Outcome(e) ==
    [ret |-> e.ret, dsp |-> e.z.dsp, dstack |-> e.z.dstack, oob |-> e.z.oob]

DualInit == DevStart({})

(* The booted VM evaluates w and ": f w ; f", each from the stack st. *)
DualEval ==
    /\ dev.phase = "wait"
    /\ \E w \in Words(vm), st \in DualStacks, u \in UbCells :
       \E a \in {EvalBuf(WithStack(VmIn(u), st), WordName(vm, w))},
          b \in {EvalBuf(WithStack(VmIn(u), st), Wrapped(WordName(vm, w)))} :
          /\ a.z.oob \/ b.z.oob \/ u = 0
          /\ dev' = [dev EXCEPT !.phase = "dual",
                                !.ret = [w |-> WordName(vm, w),
                                         flags |-> WordFlags(vm, w),
                                         st |-> st,
                                         direct |-> Outcome(a),
                                         wrapped |-> Outcome(b)]]
    /\ UNCHANGED <<buffer, packet, checksum, sram, write_pos, upArmed, trace,
                   ctrlTx, ctrlRx, vm>>
    /\ UNCHANGED devIdle

DualDone ==
    /\ dev.phase = "dual"
    /\ dev' = [dev EXCEPT !.phase = "wait", !.ret = 0]
    /\ UNCHANGED <<buffer, packet, checksum, sram, write_pos, upArmed, trace,
                   ctrlTx, ctrlRx, vm>>
    /\ UNCHANGED devIdle

DualNext ==
    \/ zf_bootstrap
    \/ zf_eval
    \/ DualEval
    \/ DualDone

SpecDual == DualInit /\ [][DualNext]_vars

(* The two evaluations left the same data stack. *)
SameStack ==
    /\ dev.ret.direct.dsp = dev.ret.wrapped.dsp
    /\ dev.ret.direct.dstack = dev.ret.wrapped.dstack

PositionWords ==
    {<<108, 105, 116>>, <<108, 105, 116, 115>>, <<106, 109, 112>>,
     <<106, 109, 112, 48>>, <<104, 101, 114, 101>>}

ProgColon == Source(<<58>>)

(* ": g 5" *)
ProgHalf == Source(<<58, 32, 103, 32, 53>>)

(* "( x" *)
ProgParen == Source(<<40, 32, 120>>)

TailPrograms == {ProgColon, ProgHalf, ProgParen, ProgFive}

TailPackets ==
    {DevPacket(LOAD, 0, d) : d \in TailPrograms}
        \cup {DevPacket(EXEC, 1, Zeros(DATA_SIZE))}

TailInit == DevStart(TailPackets)

SpecTail == TailInit /\ [][DevNext]_vars

(* C26: whenever zf_eval has returned (the device waits for a packet or    *)
(* is about to reply to the EXEC), the input mode is INTERPRET and         *)
(* COMPILING is 0.                                                         *)
C26_EvalReturnsClean ==
    dev.phase \in {"wait", "reply"} =>
        /\ vm.input_state = ZF_INPUT_INTERPRET
        /\ COMPILING(vm) = 0

(***************************************************************************)
(* Deferred input: programs that use ':', "'", '(' and 'key'.              *)
(***************************************************************************)
(* "' dup 5" *)
ProgTick == Source(<<39, 32, 100, 117, 112, 32, 53>>)

(* ": ff key key ; ff AB" *)
ProgKeys == Source(<<58, 32, 102, 102, 32, 107, 101, 121, 32, 107, 101, 121,
                     32, 59, 32, 102, 102, 32, 65, 66>>)

(* "( no ) 5 ." *)
ProgComment == Source(<<40, 32, 110, 111, 32, 41, 32, 53, 32, 46>>)

InputPrograms == {ProgInc, ProgTick, ProgKeys, ProgComment}

InputPackets ==
    {DevPacket(LOAD, 0, d) : d \in InputPrograms}
        \cup {DevPacket(EXEC, 1, Zeros(DATA_SIZE))}

InputInit == DevStart(InputPackets)

SpecInput == InputInit /\ [][DevNext]_vars

(* What the VM keeps from one call of handle_char to the next. *)
Kept(z) ==
    [dict |-> z.dict, dsp |-> z.dsp, dstack |-> z.dstack, rsp |-> z.rsp,
     rstack |-> z.rstack, ip |-> z.ip, input_state |-> z.input_state]

(* The primitive in the cell at ip, and the mode it asks for input in. *)
PrimAt(z) == dict_get_cell(z, z.ip).v

ModeOf(p) ==
    IF p \in {PRIM_COL, PRIM_TICK} THEN ZF_INPUT_PASS_WORD
    ELSE ZF_INPUT_PASS_CHAR

(* A request for input is pending: ip is at the cell of the primitive      *)
(* that asked, and asking again leaves ip, both stacks and the dictionary  *)
(* as they are.                                                            *)
RequestHeld(z) ==
    z.input_state # ZF_INPUT_INTERPRET =>
        /\ PrimAt(z) \in InputPrims
        /\ z.input_state = ModeOf(PrimAt(z))
        /\ Kept(run([z EXCEPT !.input_state = ZF_INPUT_INTERPRET], NULL))
               = Kept(z)

(* The pending primitive is given tok, and the cells after it run with no  *)
(* input.                                                                  *)
Resumed(z1, ip_org) ==
    IF z1.abort # 0 \/ z1.hang THEN z1
    ELSE IF z1.input_state # ZF_INPUT_INTERPRET
    THEN [z1 EXCEPT !.ip = ip_org]
    ELSE run(z1, NULL)

Delivered(z, tok) ==
    CHOOSE r \in {Resumed(z1, z.ip) :
                     z1 \in {do_prim([z EXCEPT
                                         !.ip = AddCell(z.ip,
                                                dict_get_cell(z, z.ip).l),
                                         !.input_state = ZF_INPUT_INTERPRET],
                                     PrimAt(z), tok)}} : TRUE

AfterAbort(r) == IF r.abort # 0 THEN AbortReturn(r) ELSE r

(* The lexical event the step of zf_eval completes while a request is      *)
(* pending: the character itself, or the word the character ends.          *)
LexEvent ==
    IF vm.input_state = ZF_INPUT_PASS_CHAR THEN <<SourceChar>>
    ELSE IF (SourceChar = 0 \/ isspace(SourceChar)) /\ vm.buf # <<>>
    THEN vm.buf
    ELSE NULL

(* C23: a primitive that asked for input leaves ip at its own cell and     *)
(* the return stack as it was; the next word (PASS_WORD) or character      *)
(* (PASS_CHAR) of the source goes to that primitive, once, the cells after *)
(* it run without input, and the word or character is not looked up or     *)
(* executed on its own.                                                    *)
C23_DeferredInput ==
    [][/\ RequestHeld(vm')
       /\ dev.phase = "exec" /\ vm.input_state # ZF_INPUT_INTERPRET
              /\ LexEvent # NULL /\ dev'.phase # "hung"
          => Kept(vm') = Kept(AfterAbort(Delivered(VmIn(0), LexEvent)))]_vars

(* ": ff key key ; ff AB" has run: each key got one character. *)
C23_Witness ==
    /\ JustRan(1, ProgKeys, 1)
    /\ Rsp(2).options = ZF_OK
    /\ vm.dstack = <<65, 66>>
    /\ vm.input_state = ZF_INPUT_INTERPRET

(***************************************************************************)
(* Programs that define words, some of them with the name of an older      *)
(* word, and that meet tokens that are no word.                            *)
(***************************************************************************)
(* ": dup 7 ; 1 dup" *)
ProgShadow == Source(<<58, 32, 100, 117, 112, 32, 55, 32, 59, 32, 49, 32,
                       100, 117, 112>>)

(* ": a 1 ; : a 2 ; a" *)
ProgTwice == Source(<<58, 32, 97, 32, 49, 32, 59, 32, 58, 32, 97, 32, 50, 32,
                      59, 32, 97>>)

(* ": h 3 dup 1+ + ; h" *)
ProgBody == Source(<<58, 32, 104, 32, 51, 32, 100, 117, 112, 32, 49, 43, 32,
                     43, 32, 59, 32, 104>>)

(* ": q postpone [ ; 4" *)
ProgPostpone == Source(<<58, 32, 113, 32, 112, 111, 115, 116, 112, 111, 110,
                         101, 32, 91, 32, 59, 32, 52>>)

CompilePrograms ==
    {ProgShadow, ProgTwice, ProgBody, ProgPostpone, ProgNaw, ProgOpen}

CompilePackets ==
    {DevPacket(LOAD, 0, d) : d \in CompilePrograms}
        \cup {DevPacket(EXEC, 1, Zeros(DATA_SIZE))}

CompileInit == DevStart(CompilePackets)

SpecCompile == CompileInit /\ [][DevNext]_vars

(* Tokens that are the name of no word: "nosuch", "du", "dupp". *)
Strangers ==
    {<<110, 111, 115, 117, 99, 104>>, <<100, 117>>, <<100, 117, 112, 112>>}

(* The headers of the dictionary with their names. *)
Headers(z) == {<<w, WordName(z, w)>> : w \in Words(z)}

(* The headers with that name; headers are created at rising addresses. *)
Named(T, name) == {p[1] : p \in {q \in T : q[2] = name}}

Newest(S) == CHOOSE w \in S : \A x \in S : x <= w

(* find_word finds a word exactly when one has the name, and then the one  *)
(* created last.                                                           *)
FindsNewest(z, T, name) ==
    \E f \in {find_word(z, name)}, S \in {Named(T, name)} :
        /\ f.found <=> S # {}
        /\ f.found => f.word = Newest(S)

LookupShadows(z) ==
    \E T \in {Headers(z)} :
        \A name \in {p[2] : p \in T} \cup Strangers : FindsNewest(z, T, name)

(* The step of zf_eval ends a token that is no word and no number. *)
EndsStranger ==
    /\ dev.phase = "exec"
    /\ vm.input_state = ZF_INPUT_INTERPRET
    /\ AbortsWith = ZF_ABORT_NOT_A_WORD

(* C24: when zf_eval returns, the lookup of any name gives the word of that *)
(* name created last (later definitions shadow earlier ones, bootstrap     *)
(* words included) and finds nothing for a name no word has; a token that  *)
(* is no word and no integer makes zf_eval return NOT_A_WORD with nothing  *)
(* on the data stack and nothing appended to the dictionary.               *)
C24_LookupNewest ==
    [][/\ dev.phase \in {"lib", "exec"} /\ dev'.phase \in {"wait", "reply"}
              => LookupShadows(vm')
       /\ EndsStranger =>
              /\ dev'.phase = "reply" /\ dev'.ret = ZF_ABORT_NOT_A_WORD
              /\ vm'.dsp = 0 /\ vm'.dstack = <<>>
              /\ HERE(vm') = HERE(vm) /\ LATEST(vm') = LATEST(vm)
              /\ dict_get_bytes(vm', HERE(vm), 8)
                     = dict_get_bytes(vm, HERE(vm), 8)]_vars

(* ": dup 7 ; 1 dup" has left 1 7: the second dup is the new one. *)
C24_Witness ==
    /\ JustRan(1, ProgShadow, 1)
    /\ vm.dstack = <<1, 7>>
    /\ Cardinality(Named(Headers(vm), <<100, 117, 112>>)) = 2
    /\ find_word(vm, <<100, 117, 112>>).word = LATEST(vm)

(***************************************************************************)
(* Compile mode, token by token.                                           *)
(***************************************************************************)
(* The step of zf_eval ends a token, which handle_word gets. *)
EndsToken ==
    /\ dev.phase \in {"lib", "exec"}
    /\ (SourceChar = 0 \/ isspace(SourceChar))
    /\ vm.buf # <<>>
    /\ AbortsWith = 0
    /\ dev'.phase # "hung"

(* The data stack is as it was. *)
StackKept == vm'.dsp = vm.dsp /\ vm'.dstack = vm.dstack

(* The cell appended at the old HERE is v, and c cells were appended. *)
Appended(v) ==
    \E c \in {dict_get_cell(vm', HERE(vm))} :
        c.v = v /\ HERE(vm') = AddCell(HERE(vm), c.l)

AppendedLit(v) ==
    \E c \in {dict_get_cell(vm', HERE(vm))} :
    \E d \in {dict_get_cell(vm', AddCell(HERE(vm), c.l))} :
        /\ c.v = PRIM_LIT
        /\ d.v = v
        /\ HERE(vm') = AddCell(AddCell(HERE(vm), c.l), d.l)

(* ':' is given its name: a header of that name is the latest word. *)
ColonStep ==
    /\ LATEST(vm') = HERE(vm)
    /\ WordName(vm', LATEST(vm')) = vm.buf
    /\ WordFlags(vm', LATEST(vm')) = Len(vm.buf)
    /\ WordLink(vm', LATEST(vm')).v = LATEST(vm)
    /\ COMPILING(vm') = 1
    /\ StackKept

(* A token met while compiling, f what find_word gives for it. *)
CompileStep(f) ==
    IF ~f.found
    THEN /\ AppendedLit(zf_host_parse_num(vm.buf).v)
         /\ StackKept
         /\ COMPILING(vm') = COMPILING(vm)
    ELSE IF POSTPONE(vm) # 0 \/ ~HasFlag(WordFlags(vm, f.word), ZF_FLAG_IMMEDIATE)
    THEN /\ Appended(IF HasFlag(WordFlags(vm, f.word), ZF_FLAG_PRIM)
                     THEN dict_get_cell(vm, f.code).v
                     ELSE f.code)
         /\ StackKept
         /\ COMPILING(vm') = COMPILING(vm)
         /\ POSTPONE(vm') = 0
    ELSE /\ Kept(vm') = Kept(execute(VmIn(0), f.code))
         /\ f.code = find_word(vm, <<59>>).code =>
                Appended(PRIM_EXIT) /\ COMPILING(vm') = 0 /\ StackKept

(* C25: the name after ':' becomes the latest header and COMPILING 1;      *)
(* while COMPILING is set a non-immediate word is appended at HERE (the    *)
(* opcode of a primitive, the code address of any other word) and a number *)
(* as LIT v, the data stack staying as it is; an immediate word executes   *)
(* unless POSTPONE is set; ';' appends EXIT and clears COMPILING.          *)
C25_CompileMode ==
    [][EndsToken =>
          /\ vm.input_state = ZF_INPUT_PASS_WORD /\ PrimAt(vm) = PRIM_COL
                 => ColonStep
          /\ vm.input_state = ZF_INPUT_INTERPRET /\ COMPILING(vm) # 0
                 => \E f \in {find_word(vm, vm.buf)} : CompileStep(f)]_vars

(* ": h 3 dup 1+ + ; h" has run: h is the latest word, its body starts     *)
(* with LIT 3, and running it has left 7.                                  *)
C25_Witness ==
    /\ JustRan(1, ProgBody, 1)
    /\ WordName(vm, LATEST(vm)) = <<104>>
    /\ COMPILING(vm) = 0
    /\ dict_get_cell(vm, find_word(vm, <<104>>).code).v = PRIM_LIT
    /\ vm.dstack = <<7>>

(***************************************************************************)
(* Programs that leave the stacks and the dictionary.                      *)
(***************************************************************************)
(* "drop" *)
ProgDrop == Source(<<100, 114, 111, 112>>)

(* "5000 h ! 1 ," *)
ProgHere == Source(<<53, 48, 48, 48, 32, 104, 32, 33, 32, 49, 32, 44>>)

BoundsPrograms == {ProgDrop, ProgHere, ProgFive}

BoundsPackets ==
    {DevPacket(LOAD, 0, d) : d \in BoundsPrograms}
        \cup {DevPacket(EXEC, 1, Zeros(DATA_SIZE))}

BoundsInit == DevStart(BoundsPackets)

SpecBounds == BoundsInit /\ [][DevNext]_vars

(* C28: the two stack pointers stay inside their arrays,                   *)
(* 0 <= DSP <= 32 and 0 <= RSP <= 32, in every state of the VM.            *)
C28_StackPointersInside ==
    /\ vm.dsp >= 0 /\ vm.dsp <= ZF_DSTACK_SIZE
    /\ vm.rsp >= 0 /\ vm.rsp <= ZF_RSTACK_SIZE

(* C29: after any sequence of EXEC commands HERE <= DICT_SIZE, and no      *)
(* step of an evaluation has written outside the dictionary.               *)
C29_HereInsideDict ==
    /\ HERE(vm) <= ZF_DICT_SIZE
    /\ Len(vm.dict) <= ZF_DICT_SIZE
    /\ dev.phase = "exec" /\ HERE(vm) > ZF_DICT_SIZE => ~vm.oob

(***************************************************************************)
(* An abort inside an open definition.                                     *)
(***************************************************************************)
(* The step of zf_eval aborts while a colon definition is open: the word   *)
(* being compiled is the latest one.                                       *)
AbortsOpen ==
    /\ dev.phase = "exec"
    /\ COMPILING(vm) # 0
    /\ AbortsWith # 0

(* C31: an abort of zf_eval inside an open colon definition leaves HERE    *)
(* and LATEST as they were before the definition started (HERE at the      *)
(* address of the open word's header, LATEST at the word it links to), and *)
(* a later lookup of the open word's name does not find it.                *)
C31_AbortDropsOpenWord ==
    [][AbortsOpen =>
          /\ HERE(vm') = LATEST(vm)
          /\ LATEST(vm') = WordLink(vm, LATEST(vm)).v
          /\ find_word(vm', WordName(vm, LATEST(vm))).word # LATEST(vm)]_vars

(***************************************************************************)
(* Progress of the main loop through an EXEC.                              *)
(***************************************************************************)
(* ": f begin again ; f" *)
ProgSpin == Source(<<58, 32, 102, 32, 98, 101, 103, 105, 110, 32, 97, 103,
                     97, 105, 110, 32, 59, 32, 102>>)

LivePrograms == {ProgSpin, ProgFive}

LivePackets ==
    {DevPacket(LOAD, 0, d) : d \in LivePrograms}
        \cup {DevPacket(EXEC, 1, Zeros(DATA_SIZE))}

LiveInit == DevStart(LivePackets)

(* The device is in its bootstrap, inside zf_eval, or at the reply of case  *)
(* EXEC: the phases in which zf_bootstrap, zf_eval or ExecReply is         *)
(* enabled, and no other action is.                                        *)
Busy == dev.phase \in {"bootstrap", "lib", "exec", "reply"}

(* Where these three actions can take dev: on by one character or table    *)
(* entry, on to the next phase, to the reply with the result of zf_eval,   *)
(* or into a run that does not end.                                        *)
Onward ==
    {[dev EXCEPT !.k = @ + 1], [dev EXCEPT !.phase = "hung"],
     [dev EXCEPT !.phase = "wait"]}
        \cup {[dev EXCEPT !.phase = p, !.k = 1] : p \in {"lib", "wait"}}
        \cup {[dev EXCEPT !.phase = "reply", !.k = 1, !.ret = r] :
                 r \in ZF_OK..ZF_ABORT_DIVISION_BY_ZERO}

(* A step of the running device, as far as dev shows it. *)
DeviceRuns == Busy /\ dev' \in Onward

(* The processor does not stop: a device that can step does step.  The     *)
(* controller sends when it likes.                                         *)
SpecLive ==
    /\ LiveInit
    /\ [][DevNext]_vars
    /\ WF_dev(DeviceRuns)

(* The EXEC taken last has its ACK, and the up-link receive is armed. *)
ExecAnswered ==
    /\ dev.phase = "wait"
    /\ upArmed[1]
    /\ Len(ctrlRx) = Len(ctrlTx)
    /\ Len(ctrlRx) > 0
    /\ Rsp(Len(ctrlRx)).command = ACK

(* C32: every valid EXEC addressed to the node is in the end answered by   *)
(* its ACK, with the up-link receive armed again, whatever the program in  *)
(* SRC_BUF.                                                                *)
C32_ExecIsAnswered == (dev.phase = "exec") ~> ExecAnswered

=============================================================================
